---------------------------- MODULE Spec2Model ----------------------------
(***************************************************************************)
(* Verification model of the bistable-spring geometry engine and its       *)
(* mechanical verification pipeline (neekonsu/mcw-mems-photonic-switch).   *)
(*                                                                         *)
(* Real numbers of the Python code are modelled in fixed point: a length   *)
(* or a dimensionless ratio r is the integer r * SC (SC = 10^6, i.e.       *)
(* 1e-6 um resolution).  Node indices are 1-based here (0-based in         *)
(* numpy); only membership of an index in a set matters.                   *)
(*                                                                         *)
(* The module holds several specifications, one per subsystem:             *)
(*   SpecBC    boundary-condition node classifier (identify_bc_nodes_2d)   *)
(*   SpecMesh  3-D mesh entry points and the process-wide gmsh session     *)
(*   SpecBeam  CCS half-beam / full-beam centerline generators             *)
(*   SpecF1    closed-form cubic force-displacement model F1_simplified    *)
(*   SpecSpring  full-spring outline and layout assembly                   *)
(*   SpecLc    per-vertex mesh size of the 3-D mesh entry points           *)
(*   SpecWidth width profiles and half-beam polygon builders               *)
(*   SpecXlim  plot range detection (find_physical_xlim)                   *)
(*   SpecEv    even-mode eigenvalues (find_even_mode_eigenvalues)          *)
(* Each specification leaves the variables of the other subsystems alone.  *)
(***************************************************************************)
EXTENDS Integers, Sequences, FiniteSets, TLC

VARIABLES
    \* ---- boundary-condition classifier ----
    nodes,      \* the Nx2 node array handed to identify_bc_nodes_2d
    bcArgs,     \* its keyword arguments
    bcOut,      \* the returned dict (four empty sets before the call)
    bcPc,       \* "ready" before the call, "returned" after it
    points,     \* the Nx3 point array handed to identify_bc_nodes_3d
    bc3Out,     \* the dict it returned (three empty sets before the call)
    bc3Pc,      \* "ready" before that call, "returned" after it
    \* ---- 3-D mesh entry points and the gmsh / file-system state they share ----
    fn,         \* per task: 1 = get_full_spring_3d_mesh, 2 = ..._order2
    proc,       \* per task: the OS process (worker) that runs it
    mpc,        \* per task: position in the function body
    kernel,     \* per process: the process-wide gmsh session
    files,      \* the shared file system: path -> mesh file content
    result,     \* per task: what the function returned
    \* ---- CCS centerline generators ----
    beamArgs,   \* half_span, flex_ratio, initial_offset, n_points, np_float
    halfOut,    \* what _compute_ccs_half_centerline did on beamArgs
    fullOut,    \* what _compute_ccs_centerline did on span = 2 * half_span
    \* ---- closed-form force-displacement model ----
    f1Q,        \* the Q argument of F1_simplified
    f1Np,       \* whether Q is a numpy float64 scalar (else a Python float)
    f1Delta,    \* the Delta argument (an array of displacements)
    f1Out,      \* what F1_simplified did on them
    \* ---- full-spring outline assembly ----
    springArgs, \* the keyword arguments of get_full_spring_polygon
    springOut,  \* what get_full_spring_polygon did on them (last call)
    springPrev, \* what the call before the last one did on the same arguments
    csOut,      \* what make_complete_spring did on the same arguments
    \* ---- per-vertex mesh size ----
    lcArgs,     \* entry point, anchor_distance, half_span, flex_ratio, lc_flex, lc_rigid
    lcPts,      \* the x of the outline vertices still to be added
    lcOut,      \* the (x, lc) of the points added with gmsh.model.occ.addPoint
    \* ---- half-beam width profile and polygon ----
    wArgs,      \* the arguments of get_beam_polygon / _half_beam_polygon
    wOut,       \* what the polygon builder did on them
    wFull,      \* what _compute_width_profile did on the full beam of span 2 * half_span
    \* ---- plot range detection ----
    xlDisp,     \* the disp argument of find_physical_xlim
    xlF,        \* its F argument
    xlMargin,   \* its margin_frac argument
    xlOut,      \* what find_physical_xlim did on them
    \* ---- even-mode eigenvalues ----
    evModes,    \* the n_modes argument of find_even_mode_eigenvalues
    evOut       \* what find_even_mode_eigenvalues did on it

bcVars == <<nodes, bcArgs, bcOut, bcPc, points, bc3Out, bc3Pc>>
meshVars == <<fn, proc, mpc, kernel, files, result>>
beamVars == <<beamArgs, halfOut, fullOut>>
f1Vars == <<f1Q, f1Np, f1Delta, f1Out>>
springVars == <<springArgs, springOut, springPrev, csOut>>
lcVars == <<lcArgs, lcPts, lcOut>>
widthVars == <<wArgs, wOut, wFull>>
xlimVars == <<xlDisp, xlF, xlMargin, xlOut>>
evVars == <<evModes, evOut>>
vars == <<bcVars, meshVars, beamVars, f1Vars, springVars, lcVars, widthVars,
          xlimVars, evVars>>

(***************************************************************************)
(* Fixed point                                                             *)
(***************************************************************************)
\* A real r is the integer r * SC; RT is the square root of SC.
RT == 10^3
SC == RT * RT

\* n thousandths (of a micrometre, or of one).
Milli(n) == n * RT

Abs(a) == IF a < 0 THEN -a ELSE a

\* a * b of two reals, truncated to the resolution; the product is formed in
\* halves so that no intermediate leaves the 32-bit range.
MulAbs(a, b) ==
    LET ah == a \div RT
        al == a % RT
        bh == b \div RT
        bl == b % RT
    IN  ah * bh + (ah * bl + al * bh + (al * bl) \div RT) \div RT

Mul(a, b) ==
    IF (a < 0) = (b < 0) THEN MulAbs(Abs(a), Abs(b)) ELSE -MulAbs(Abs(a), Abs(b))

\* n further decimal digits of r / b (0 <= r < b), by long division.
RECURSIVE DivDigits(_, _, _)
DivDigits(r, b, n) ==
    IF n = 0 THEN 0
    ELSE ((r * 10) \div b) * 10^(n - 1) + DivDigits((r * 10) % b, b, n - 1)

DivAbs(a, b) == (a \div b) * SC + DivDigits(a % b, b, 6)

\* a / b of two reals, b # 0, truncated to the resolution.
Div(a, b) ==
    IF (a < 0) = (b < 0) THEN DivAbs(Abs(a), Abs(b)) ELSE -DivAbs(Abs(a), Abs(b))

\* np.pi
PI == 3141593

\* np.cos(th) for 0 <= th <= pi/2 (the only angles the generators form):
\* the Taylor series to th^12, in Horner form.  Cos(0) = 1 exactly.
Cos(th) ==
    LET t  == Mul(th, th)
        c6 == SC - t \div 132
        c5 == SC - Mul(t, c6) \div 90
        c4 == SC - Mul(t, c5) \div 56
        c3 == SC - Mul(t, c4) \div 30
        c2 == SC - Mul(t, c3) \div 12
    IN  SC - Mul(t, c2) \div 2

\* sin(th) for 0 <= th <= pi/2, likewise (to th^13).  Sin(0) = 0 exactly.
Sin(th) ==
    LET t  == Mul(th, th)
        s6 == SC - t \div 156
        s5 == SC - Mul(t, s6) \div 110
        s4 == SC - Mul(t, s5) \div 72
        s3 == SC - Mul(t, s4) \div 42
        s2 == SC - Mul(t, s3) \div 20
        s1 == SC - Mul(t, s2) \div 6
    IN  Mul(th, s1)

Max(a, b) == IF a >= b THEN a ELSE b
Min(a, b) == IF a <= b THEN a ELSE b

(***************************************************************************)
(* identify_bc_nodes_2d  (full_spring_utils.py 204-257)                    *)
(***************************************************************************)

\* Largest node array enumerated.
MaxNodes == 2

\* Node coordinates the arrays are drawn from: anchor planes, beam interior,
\* both shuttle faces, shuttle interior; y on / off a beam centerline.
NodeXs == {0, 30, 20000, 36500, 40000, 43480, 80000}
NodeYs == {6200, 1200}
NodePoints == {<<Milli(x), Milli(y)>> : x \in NodeXs, y \in NodeYs}

RECURSIVE SeqsUpTo(_, _)
SeqsUpTo(S, n) ==
    IF n = 0 THEN {<<>>}
    ELSE LET shorter == SeqsUpTo(S, n - 1)
         IN  shorter \cup {Append(s, e) : s \in {t \in shorter : Len(t) = n - 1}, e \in S}

\* Parameter sets: the defaults of the signature, a mesh whose half_span is
\* below 2*tol, a call whose anchor_distance is inconsistent with
\* half_span + shuttle_length, a coarse tolerance, and a negative
\* shuttle_length (the functions accept any number).
BcDefaults ==
    [anchor_distance |-> Milli(80000), half_span |-> Milli(36500),
     shuttle_length |-> Milli(7000), tol |-> Milli(50),
     beam_spacing |-> Milli(10000), initial_offset |-> Milli(1200),
     flex_width |-> Milli(500)]

BcParamSets ==
    { BcDefaults,
      [BcDefaults EXCEPT !.half_span = Milli(60)],
      [BcDefaults EXCEPT !.anchor_distance = Milli(43500)],
      [BcDefaults EXCEPT !.tol = Milli(20000)],
      [BcDefaults EXCEPT !.shuttle_length = Milli(-1000)] }

\* left = np.where(x < tol)
InLeftAnchor(x, p) == x < p.tol

\* right = np.where(x > anchor_distance - tol)
InRightAnchor(x, p) == x > p.anchor_distance - p.tol

\* shuttle = np.where((x > half_span - tol) & (x < half_span + shuttle_length + tol))
InShuttleNoLower(x, p) == x < p.half_span + p.shuttle_length + p.tol
InShuttleNoTol(x, p) == (x > p.half_span) /\ (x < p.half_span + p.shuttle_length)
InShuttle(x, p) ==
    (x > p.half_span - p.tol) /\ (x < p.half_span + p.shuttle_length + p.tol)

\* at_shuttle_edge = at_left_edge | at_right_edge
AtShuttleEdge(x, p) ==
    \/ Abs(x - p.half_span) < p.tol
    \/ Abs(x - (p.half_span + p.shuttle_length)) < p.tol

\* in_beam_y: |y - yc| < flex_width/2 + 0.1 for one of the two beam centres
InBeamY(y, p) ==
    LET half_sp  == p.beam_spacing \div 2
        y_margin == p.flex_width \div 2 + SC \div 10
    IN  \E yc \in {p.initial_offset + half_sp, p.initial_offset - half_sp} :
            Abs(y - yc) < y_margin

InJunction(pt, p) == AtShuttleEdge(pt[1], p) /\ InBeamY(pt[2], p)

identify_bc_nodes_2d(ns, p) ==
    [left_anchor  |-> {i \in 1..Len(ns) : InLeftAnchor(ns[i][1], p)},
     right_anchor |-> {i \in 1..Len(ns) : InRightAnchor(ns[i][1], p)},
     shuttle      |-> {i \in 1..Len(ns) : InShuttle(ns[i][1], p)},
     junction     |-> {i \in 1..Len(ns) : InJunction(ns[i], p)}]

NoBcOut ==
    [left_anchor |-> {}, right_anchor |-> {}, shuttle |-> {}, junction |-> {}]

\* x = points[:, 0]
PointY(pts, i) == pts[i][2]
PointX(pts, i) == pts[i][1]

identify_bc_nodes_3d(pts, p) ==
    [left_anchor  |-> {i \in 1..Len(pts) : InLeftAnchor(PointX(pts, i), p)},
     right_anchor |-> {i \in 1..Len(pts) : InRightAnchor(PointX(pts, i), p)},
     shuttle      |-> {i \in 1..Len(pts) : InShuttle(PointX(pts, i), p)}]

NoBc3Out == [left_anchor |-> {}, right_anchor |-> {}, shuttle |-> {}]

\* The 3-D points over a 2-D node array: the same x, y moved by dy, at height z.
Offsets3d == {<<0, 0>>, <<Milli(5000), Milli(500)>>}
Lift(ns, o) == [i \in 1..Len(ns) |-> <<ns[i][1], ns[i][2] + o[1], o[2]>>]

BCInit ==
    /\ nodes \in SeqsUpTo(NodePoints, MaxNodes)
    /\ bcArgs \in BcParamSets
    /\ bcOut = NoBcOut
    /\ bcPc = "ready"
    /\ points \in {Lift(nodes, o) : o \in Offsets3d}
    /\ bc3Out = NoBc3Out
    /\ bc3Pc = "ready"

\* The classifier is not called.
BCIdle ==
    /\ nodes = <<>>
    /\ bcArgs = BcDefaults
    /\ bcOut = NoBcOut
    /\ bcPc = "ready"
    /\ points = <<>>
    /\ bc3Out = NoBc3Out
    /\ bc3Pc = "ready"

\* One call of identify_bc_nodes_2d on the current node array.
Identify2d ==
    /\ bcPc = "ready"
    /\ bcOut' = identify_bc_nodes_2d(nodes, bcArgs)
    /\ bcPc' = "returned"
    /\ UNCHANGED <<nodes, bcArgs, points, bc3Out, bc3Pc,
                   meshVars, beamVars, f1Vars, springVars, lcVars, widthVars,
                   xlimVars, evVars>>

\* One call of identify_bc_nodes_3d on the point array, with the
\* anchor_distance, half_span, shuttle_length and tol of bcArgs.
Identify3d ==
    /\ bc3Pc = "ready"
    /\ bc3Out' = identify_bc_nodes_3d(points, bcArgs)
    /\ bc3Pc' = "returned"
    /\ UNCHANGED <<nodes, bcArgs, bcOut, bcPc, points,
                   meshVars, beamVars, f1Vars, springVars, lcVars, widthVars,
                   xlimVars, evVars>>

BCNext == Identify2d \/ Identify3d

Disjoint(A, B) == A \cap B = {}

\* A parameter set describing a real spring: a positive tolerance, a shuttle
\* of non-negative length, anchors at least 2*tol away from the shuttle faces.
BcWellFormed(p) ==
    /\ p.tol > 0
    /\ p.shuttle_length >= 0
    /\ 2 * p.tol <= p.half_span
    /\ p.half_span + p.shuttle_length + 2 * p.tol <= p.anchor_distance

C27_SameClassifier3d ==
    (/\ bcPc = "returned" /\ bc3Pc = "returned"
     /\ Len(points) = Len(nodes)
     /\ \A i \in 1..Len(nodes) : points[i][1] = nodes[i][1]) =>
        /\ bc3Out.left_anchor = bcOut.left_anchor
        /\ bc3Out.right_anchor = bcOut.right_anchor
        /\ bc3Out.shuttle = bcOut.shuttle
        /\ DOMAIN bc3Out = {"left_anchor", "right_anchor", "shuttle"}

\* Both classifiers returned shuttle and anchor nodes on arrays that differ
\* in y and z.
C27_Witness ==
    /\ bcPc = "returned" /\ bc3Pc = "returned"
    /\ Len(nodes) = MaxNodes
    /\ \A i \in 1..Len(nodes) : points[i][2] # nodes[i][2] /\ points[i][3] # 0
    /\ bc3Out.shuttle # {}
    /\ bc3Out.left_anchor # {}

(***************************************************************************)
(* get_full_spring_3d_mesh / get_full_spring_3d_mesh_order2                *)
(* (full_spring_utils.py 337-431, 434-521)                                 *)
(*                                                                         *)
(* gmsh keeps one session per OS process (gmsh.initialize / finalize act   *)
(* on process-wide state, every gmsh.model.* call acts on the session's    *)
(* current model); the mesh is handed from gmsh to meshio through a file   *)
(* at a fixed path.  Each gmsh / meshio call is one step of a task.  The   *)
(* mesher itself is external: geometry construction, mesh generation and   *)
(* writing either succeed or raise.                                        *)
(***************************************************************************)
Tasks == {"t1", "t2"}
Procs == {"p1", "p2"}

\* Each task meshes its own outline; outlines of different tasks differ.
OutlineOf(t) == t

\* tmp_msh (lines 415, 501)
TmpMsh(f) == IF f = 1 THEN "/tmp/full_spring_3d.msh" ELSE "/tmp/full_spring_3d_o2.msh"
Paths == {TmpMsh(1), TmpMsh(2)}

\* gmsh.model.add(...) (lines 386, 472)
ModelName(f) == IF f = 1 THEN "full_spring_3d" ELSE "full_spring_3d_o2"

\* What the external mesher can make of a non-empty geometry: well-shaped
\* tetrahedra, tetrahedra of which one has zero volume, or no tetrahedra at
\* all (a surface mesh only).
TetOutcomes == {"good", "degenerate", "none"}

\* A mesh: the outlines whose geometry it was generated from, the element
\* order (0: no elements) and what became of its tetrahedra.
NoMesh == [src |-> {}, order |-> 0, tets |-> "none"]

\* msh.cells of a mesh file read back by meshio: the surface triangles, then
\* the tetrahedra if there are any; second-order meshes hold 6-node
\* triangles and 10-node tetrahedra.
Blocks(msh) ==
    IF msh.order = 0 THEN <<>>
    ELSE <<[type |-> IF msh.order = 2 THEN "triangle6" ELSE "triangle",
            nodes |-> IF msh.order = 2 THEN 6 ELSE 3]>>
         \o (IF msh.tets = "none" THEN <<>>
             ELSE <<[type |-> IF msh.order = 2 THEN "tetra10" ELSE "tetra",
                     nodes |-> IF msh.order = 2 THEN 10 ELSE 4]>>)

\* A gmsh model: its name, the outlines whose entities were added to it, and
\* its mesh.
NewModel(name) == [name |-> name, geo |-> {}, mesh |-> NoMesh]

\* A closed session holds nothing; an open one always has a current model
\* (the last of models), initially gmsh's unnamed default model.
ClosedKernel == [open |-> FALSE, models |-> <<>>]
FreshKernel  == [open |-> TRUE, models |-> <<NewModel("")>>]

Current(k) == k.models[Len(k.models)]
SetCurrent(k, m) == [k EXCEPT !.models[Len(k.models)] = m]

\* What a call gave back: the mesh returned (its source outlines, the order
\* and row length of its connectivity, the element type reported with it, if
\* any) or the exception raised, with the context its message carries; tets
\* is what the mesher had made of the tetrahedra of the file read back.
NoReturn ==
    [kind |-> "none", src |-> {}, order |-> 0, elem_type |-> "", nodes |-> 0,
     tets |-> "none", carries |-> {}]

MeshInit ==
    /\ fn \in [Tasks -> {1, 2}]
    /\ proc \in [Tasks -> Procs]
    /\ mpc = [t \in Tasks |-> "start"]
    /\ kernel = [p \in Procs |-> ClosedKernel]
    /\ files = [f \in Paths |-> NoMesh]
    /\ result = [t \in Tasks |-> NoReturn]

\* No mesh is requested.
MeshIdle ==
    /\ fn = [t \in Tasks |-> 1]
    /\ proc = [t \in Tasks |-> "p1"]
    /\ mpc = [t \in Tasks |-> "start"]
    /\ kernel = [p \in Procs |-> ClosedKernel]
    /\ files = [f \in Paths |-> NoMesh]
    /\ result = [t \in Tasks |-> NoReturn]

\* An exception leaves the function at once: nothing after the raising call
\* runs (the body has no try/finally).
Raise(t) ==
    /\ mpc' = [mpc EXCEPT ![t] = "failed"]
    /\ result' = [result EXCEPT ![t] = [NoReturn EXCEPT !.kind = "raised"]]

\* gmsh.initialize(); gmsh.option.setNumber("General.Terminal", 0)
\* An already initialized session is kept as it is (gmsh only warns).
Initialize(t) ==
    /\ mpc[t] = "start"
    /\ kernel' = [kernel EXCEPT ![proc[t]] =
                     IF @.open THEN @ ELSE FreshKernel]
    /\ mpc' = [mpc EXCEPT ![t] = "add"]
    /\ UNCHANGED <<fn, proc, files, result, bcVars, beamVars, f1Vars, springVars, lcVars, widthVars,
                   xlimVars, evVars>>

\* gmsh.model.add(name): a new model becomes the session's current model.
ModelAdd(t) ==
    /\ mpc[t] = "add"
    /\ IF kernel[proc[t]].open
       THEN /\ kernel' = [kernel EXCEPT ![proc[t]].models =
                            Append(@, NewModel(ModelName(fn[t])))]
            /\ mpc' = [mpc EXCEPT ![t] = "geometry"]
            /\ UNCHANGED result
       ELSE Raise(t) /\ UNCHANGED kernel
    /\ UNCHANGED <<fn, proc, files, bcVars, beamVars, f1Vars, springVars, lcVars, widthVars,
                   xlimVars, evVars>>

\* occ.addPoint / addLine / addCurveLoop / addPlaneSurface / extrude /
\* synchronize: the task's outline goes into the current model.
Geometry(t) ==
    /\ mpc[t] = "geometry"
    /\ \E ok \in BOOLEAN :
         IF kernel[proc[t]].open /\ ok
         THEN /\ kernel' = [kernel EXCEPT ![proc[t]] =
                    SetCurrent(@, [Current(@) EXCEPT !.geo = @ \cup {OutlineOf(t)}])]
              /\ mpc' = [mpc EXCEPT ![t] = "generate"]
              /\ UNCHANGED result
         ELSE Raise(t) /\ UNCHANGED kernel
    /\ UNCHANGED <<fn, proc, files, bcVars, beamVars, f1Vars, springVars, lcVars, widthVars,
                   xlimVars, evVars>>

\* gmsh.model.mesh.generate(3): first-order tetrahedra of the current model.
Generate(t) ==
    /\ mpc[t] = "generate"
    /\ \E ok \in BOOLEAN, q \in TetOutcomes :
         IF kernel[proc[t]].open /\ ok
         THEN /\ kernel' = [kernel EXCEPT ![proc[t]] =
                    SetCurrent(@, [Current(@) EXCEPT !.mesh =
                        IF Current(kernel[proc[t]]).geo = {} THEN NoMesh
                        ELSE [src |-> Current(kernel[proc[t]]).geo,
                              order |-> 1, tets |-> q]])]
              /\ mpc' = [mpc EXCEPT ![t] = IF fn[t] = 2 THEN "setorder" ELSE "write"]
              /\ UNCHANGED result
         ELSE Raise(t) /\ UNCHANGED kernel
    /\ UNCHANGED <<fn, proc, files, bcVars, beamVars, f1Vars, springVars, lcVars, widthVars,
                   xlimVars, evVars>>

\* gmsh.model.mesh.setOrder(2)  (order-2 entry point only, line 499)
SetOrder(t) ==
    /\ mpc[t] = "setorder"
    /\ IF kernel[proc[t]].open
       THEN /\ kernel' = [kernel EXCEPT ![proc[t]] =
                  SetCurrent(@, [Current(@) EXCEPT !.mesh.order =
                      IF @ = 0 THEN 0 ELSE 2])]
            /\ mpc' = [mpc EXCEPT ![t] = "write"]
            /\ UNCHANGED result
       ELSE Raise(t) /\ UNCHANGED kernel
    /\ UNCHANGED <<fn, proc, files, bcVars, beamVars, f1Vars, springVars, lcVars, widthVars,
                   xlimVars, evVars>>

\* gmsh.write(tmp_msh): the current model's mesh replaces the file.
Write(t) ==
    /\ mpc[t] = "write"
    /\ \E ok \in BOOLEAN :
         IF kernel[proc[t]].open /\ ok
         THEN /\ files' = [files EXCEPT ![TmpMsh(fn[t])] = Current(kernel[proc[t]]).mesh]
              /\ mpc' = [mpc EXCEPT ![t] = "finalize"]
              /\ UNCHANGED result
         ELSE Raise(t) /\ UNCHANGED files
    /\ UNCHANGED <<fn, proc, kernel, bcVars, beamVars, f1Vars, springVars, lcVars, widthVars,
                   xlimVars, evVars>>

\* gmsh.finalize(): the session of the whole process is closed.
Finalize(t) ==
    /\ mpc[t] = "finalize"
    /\ IF kernel[proc[t]].open
       THEN /\ kernel' = [kernel EXCEPT ![proc[t]] = ClosedKernel]
            /\ mpc' = [mpc EXCEPT ![t] = "read"]
            /\ UNCHANGED result
       ELSE Raise(t) /\ UNCHANGED kernel
    /\ UNCHANGED <<fn, proc, files, bcVars, beamVars, f1Vars, springVars, lcVars, widthVars,
                   xlimVars, evVars>>

\* elem_type of the block picked (lines 508-516)
ElemTypeFirstOrder(type) == "C3D4"
ElemType(type) == IF type = "tetra10" THEN "C3D10" ELSE "C3D4"

\* The cell-block types an entry point looks for (lines 424, 510-514).
Wanted(f) == IF f = 1 THEN {"tetra"} ELSE {"tetra10", "tetra"}

RECURSIVE FirstBlock(_, _, _)
\* Index of the first block from i on whose type is wanted; 0 if none.
FirstBlock(blocks, types, i) ==
    IF i > Len(blocks) THEN 0
    ELSE IF blocks[i].type \in types THEN i
    ELSE FirstBlock(blocks, types, i + 1)

\* The first matching cell block of the file read back (lines 422-431,
\* 507-521): its rows are returned, by the second-order entry point together
\* with elem_type; without a matching block
\* RuntimeError("No tetrahedral elements found in mesh").
SelectTets(f, msh) ==
    LET k == FirstBlock(Blocks(msh), Wanted(f), 1)
    IN  IF k = 0
        THEN [NoReturn EXCEPT !.kind = "RuntimeError", !.tets = msh.tets]
        ELSE [kind |-> "returned", src |-> msh.src,
              order |-> IF Blocks(msh)[k].nodes = 10 THEN 2 ELSE 1,
              elem_type |-> IF f = 1 THEN "" ELSE ElemType(Blocks(msh)[k].type),
              nodes |-> Blocks(msh)[k].nodes,
              tets |-> msh.tets, carries |-> {}]

\* msh = meshio.read(tmp_msh); pick the tetrahedra; return or RuntimeError.
ReadBack(t) ==
    /\ mpc[t] = "read"
    /\ LET r == SelectTets(fn[t], files[TmpMsh(fn[t])])
       IN  /\ result' = [result EXCEPT ![t] = r]
           /\ mpc' = [mpc EXCEPT ![t] = IF r.kind = "returned" THEN "done" ELSE "failed"]
    /\ UNCHANGED <<fn, proc, kernel, files, bcVars, beamVars, f1Vars, springVars, lcVars, widthVars,
                   xlimVars, evVars>>

MeshNext ==
    \E t \in Tasks :
        \/ Initialize(t)
        \/ ModelAdd(t)
        \/ Geometry(t)
        \/ Generate(t)
        \/ SetOrder(t)
        \/ Write(t)
        \/ Finalize(t)
        \/ ReadBack(t)

Finished(t) == mpc[t] \in {"done", "failed"}
NotRunning(t) == mpc[t] \in {"start", "done", "failed"}

(***************************************************************************)
(* C2 (as stated): the gmsh session is scoped.  Whenever no invocation is  *)
(* inside the function body (each has returned, raised or not yet begun),  *)
(* no gmsh session is open: every initialize() was followed by finalize()  *)
(* on every exit path.                                                     *)
(***************************************************************************)
C2_SessionScoped ==
    (\A t \in Tasks : NotRunning(t)) => (\A p \in Procs : ~kernel[p].open)

(***************************************************************************)
(* C3 (as stated): two interleaved invocations of the same entry point     *)
(* with different outlines each return the mesh generated from their own   *)
(* outline.                                                                *)
(***************************************************************************)
C3_OwnMeshReturned ==
    \A t \in Tasks :
        ((\A u \in Tasks : fn[u] = fn[t]) /\ mpc[t] = "done")
            => result[t].src = {OutlineOf(t)}

\* What a failure must carry for the caller to diagnose under-resolution.
Diagnosis == {"lc_flex", "lc_rigid", "min_feature_size"}

(***************************************************************************)
(* C15 (as stated): both 3-D mesh entry points fail with a                 *)
(* MeshGenerationFailure whenever the file read back holds zero            *)
(* tetrahedra or a degenerate zero-volume element, and the failure carries *)
(* the characteristic lengths and the minimum feature size.                *)
(***************************************************************************)
C15_BadMeshFails ==
    \A t \in Tasks :
        (/\ result[t].kind \in {"returned", "RuntimeError"}
         /\ result[t].tets \in {"none", "degenerate"})
            => /\ result[t].kind # "returned"
               /\ Diagnosis \subseteq result[t].carries

MinSec == 30

\* np.linspace(a, b, n, endpoint=False)[i], i = 0 .. n-1
LinspaceOpenWithEnd(a, b, n, i) ==
    IF i = n - 1 THEN b ELSE a + ((b - a) * i) \div (n - 1)
LinspaceOpen(a, b, n, i) == a + ((b - a) * i) \div n

\* np.linspace(a, b, n, endpoint=True)[i], i = 0 .. n-1 (the last is b itself)
LinspaceClosed(a, b, n, i) ==
    IF i = n - 1 THEN b ELSE a + ((b - a) * i) \div (n - 1)

NoCurve ==
    [kind |-> "none", L_flex |-> 0, L_rigid |-> 0, A |-> 0, slope |-> 0,
     n_sec |-> 0, x |-> <<>>, y |-> <<>>]

\* What a division by zero does: an exception for Python floats, NaN samples
\* for numpy scalars.
ZeroDivision(np_float, Lf, Lr) ==
    [NoCurve EXCEPT !.kind = IF np_float THEN "nan" ELSE "ZeroDivisionError",
                    !.L_flex = Lf, !.L_rigid = Lr]

\* L_flex and L_rigid of a (half-)span  (lines 128-129, 80-82)
LFlex(half, flex_ratio) == Mul(flex_ratio, half)
LRigid(half, flex_ratio) == half - LFlex(half, flex_ratio)

\* 1.0 + np.pi * L_rigid / (2.0 * L_flex)  (the divisor of line 132 / 85)
AmplitudeDenom(Lf, Lr) == SC + Div(Mul(PI, Lr), 2 * Lf)

\* A = initial_offset / (1.0 + np.pi * L_rigid / (2.0 * L_flex))
AmplitudeNoPi(h, Lf, Lr) == Div(h, SC + Div(Lr, 2 * Lf))
AmplitudeInverted(h, Lf, Lr) == Mul(h, AmplitudeDenom(Lf, Lr))
Amplitude(h, Lf, Lr) == Div(h, AmplitudeDenom(Lf, Lr))

\* slope = A * np.pi / (2.0 * L_flex)
RigidSlope(A, Lf) == Div(Mul(A, PI), 2 * Lf)

\* y = A * (1.0 - np.cos(np.pi * d / (2.0 * L_flex))): the cosine section at
\* distance d from its anchor  (lines 139, 92, 104)
FlexY(A, Lf, d) == Mul(A, SC - Cos(Div(Mul(PI, d), 2 * Lf)))

\* d/dd of FlexY: A * pi / (2 L_flex) * sin(pi * d / (2 L_flex))
FlexDyDx(A, Lf, d) == Mul(Div(Mul(A, PI), 2 * Lf), Sin(Div(Mul(PI, d), 2 * Lf)))

\* y = y0 + m * (x - x0): a straight section  (lines 143, 96, 100)
LineY(y0, m, x, x0) == y0 + Mul(m, x - x0)

_compute_ccs_half_centerline(half_span, flex_ratio, initial_offset, n_points, np_float) ==
    LET L_flex  == LFlex(half_span, flex_ratio)
        L_rigid == LRigid(half_span, flex_ratio)
    IN  IF L_flex = 0 \/ AmplitudeDenom(L_flex, L_rigid) = 0
        THEN ZeroDivision(np_float, L_flex, L_rigid)
        ELSE
        LET A     == Amplitude(initial_offset, L_flex, L_rigid)
            slope == RigidSlope(A, L_flex)
            n_sec == Max(n_points \div 2, MinSec)
            x1 == [i \in 1..n_sec |-> LinspaceOpen(0, L_flex, n_sec, i - 1)]
            y1 == [i \in 1..n_sec |-> FlexY(A, L_flex, x1[i])]
            x2 == [i \in 1..n_sec |-> LinspaceClosed(L_flex, half_span, n_sec, i - 1)]
            y2 == [i \in 1..n_sec |-> LineY(A, slope, x2[i], L_flex)]
        IN  [kind |-> "returned", L_flex |-> L_flex, L_rigid |-> L_rigid,
             A |-> A, slope |-> slope, n_sec |-> n_sec,
             x |-> x1 \o x2, y |-> y1 \o y2]

\* half = span / 2.0
HalfOfSpanQuarter(span) == span \div 4
HalfOfSpan(span) == span \div 2

_compute_ccs_centerline(span, flex_ratio, initial_offset, n_points, np_float) ==
    LET half    == HalfOfSpan(span)
        L_flex  == LFlex(half, flex_ratio)
        L_rigid == LRigid(half, flex_ratio)
    IN  IF L_flex = 0 \/ AmplitudeDenom(L_flex, L_rigid) = 0
        THEN ZeroDivision(np_float, L_flex, L_rigid)
        ELSE
        LET A     == Amplitude(initial_offset, L_flex, L_rigid)
            slope == RigidSlope(A, L_flex)
            n_sec == Max(n_points \div 4, MinSec)
            x1 == [i \in 1..n_sec |-> LinspaceOpen(0, L_flex, n_sec, i - 1)]
            y1 == [i \in 1..n_sec |-> FlexY(A, L_flex, x1[i])]
            x2 == [i \in 1..n_sec |-> LinspaceOpen(L_flex, half, n_sec, i - 1)]
            y2 == [i \in 1..n_sec |-> LineY(A, slope, x2[i], L_flex)]
            x3 == [i \in 1..n_sec |-> LinspaceOpen(half, span - L_flex, n_sec, i - 1)]
            y3 == [i \in 1..n_sec |-> LineY(initial_offset, -slope, x3[i], half)]
            x4 == [i \in 1..n_sec |-> LinspaceClosed(span - L_flex, span, n_sec, i - 1)]
            y4 == [i \in 1..n_sec |-> FlexY(A, L_flex, span - x4[i])]
        IN  [kind |-> "returned", L_flex |-> L_flex, L_rigid |-> L_rigid,
             A |-> A, slope |-> slope, n_sec |-> n_sec,
             x |-> x1 \o x2 \o x3 \o x4, y |-> y1 \o y2 \o y3 \o y4]

\* Arguments the generators are called with: the defaults of make_ccs_half_beam
\* and of the full-spring assembly, and values outside the documented ranges.
HalfSpans == {Milli(20000), Milli(36500), Milli(10000), 0, Milli(-5000)}
FlexRatios == {Milli(300), Milli(500), Milli(100), 0, Milli(1000), Milli(1200), Milli(-200)}
InitialOffsets == {Milli(1200), Milli(2000), 0, Milli(-1000)}
NPoints == {0, 60, 64}

ValidBeamArgs(a) ==
    /\ a.flex_ratio > 0
    /\ a.flex_ratio < SC
    /\ a.half_span > 0
    /\ a.initial_offset >= 0

BeamInit ==
    /\ beamArgs \in [half_span : HalfSpans, flex_ratio : FlexRatios,
                      initial_offset : InitialOffsets, n_points : NPoints,
                      np_float : BOOLEAN]
    /\ halfOut = NoCurve
    /\ fullOut = NoCurve

\* No centerline is requested.
BeamIdle ==
    /\ beamArgs = [half_span |-> Milli(20000), flex_ratio |-> Milli(300),
                   initial_offset |-> Milli(1200), n_points |-> 0,
                   np_float |-> FALSE]
    /\ halfOut = NoCurve
    /\ fullOut = NoCurve

\* get_beam_centerline / make_ccs_half_beam: one call of the half-beam generator.
HalfCenterline ==
    /\ halfOut.kind = "none"
    /\ halfOut' = _compute_ccs_half_centerline(beamArgs.half_span,
                       beamArgs.flex_ratio, beamArgs.initial_offset,
                       beamArgs.n_points, beamArgs.np_float)
    /\ UNCHANGED <<beamArgs, fullOut, bcVars, meshVars, f1Vars, springVars, lcVars, widthVars,
                   xlimVars, evVars>>

\* make_ccs_beam: one call of the full-beam generator, span = 2 * half_span.
FullCenterline ==
    /\ fullOut.kind = "none"
    /\ fullOut' = _compute_ccs_centerline(2 * beamArgs.half_span,
                       beamArgs.flex_ratio, beamArgs.initial_offset,
                       beamArgs.n_points, beamArgs.np_float)
    /\ UNCHANGED <<beamArgs, halfOut, bcVars, meshVars, f1Vars, springVars, lcVars, widthVars,
                   xlimVars, evVars>>

BeamNext == HalfCenterline \/ FullCenterline

\* Tolerance of a comparison of two reals: 1e-4 (um, or of slope), two
\* orders above the resolution.
Eps == SC \div 10^4
Near(a, b) == Abs(a - b) <= Eps

\* dy/dx of the half-beam centerline at x: the cosine section on [0, L_flex),
\* the straight section on [L_flex, half_span].
HalfDyDx(out, x) ==
    IF x < out.L_flex THEN FlexDyDx(out.A, out.L_flex, x) ELSE out.slope

\* The last sample of a returned curve.
LastX(out) == out.x[Len(out.x)]
LastY(out) == out.y[Len(out.y)]

ScenarioA(a) ==
    /\ a.half_span = Milli(20000)
    /\ a.flex_ratio = Milli(300)
    /\ a.initial_offset = Milli(1200)

\* y of the curve described by a returned half centerline at the position d
\* from its anchor: the cosine rise up to L_flex, the straight line beyond.
HalfCurveY(h, d) ==
    IF d < h.L_flex THEN h.A - Mul(h.A, Cos(Div(Mul(PI, d), 2 * h.L_flex)))
    ELSE h.A + Mul(h.slope, d - h.L_flex)

(***************************************************************************)
(* C30: the two centerline generators agree.  For span = 2 * half_span and *)
(* equal flex_ratio and initial_offset, _compute_ccs_centerline restricted *)
(* to 0 <= x <= span / 2 describes the same curve as                       *)
(* _compute_ccs_half_centerline (same amplitude A, same rigid slope, same  *)
(* y at every x), and on span / 2 <= x <= span it is the mirror image      *)
(* y(x) = y(span - x), ending at y = 0.                                    *)
(***************************************************************************)
C30_FullIsMirroredHalf ==
    (halfOut.kind = "returned" /\ fullOut.kind = "returned" /\ ValidBeamArgs(beamArgs)) =>
        LET span == 2 * beamArgs.half_span
        IN  /\ fullOut.A = halfOut.A
            /\ fullOut.slope = halfOut.slope
            /\ fullOut.L_flex = halfOut.L_flex
            /\ \A j \in 1..Len(halfOut.x) :
                 Near(halfOut.y[j], HalfCurveY(halfOut, halfOut.x[j]))
            /\ \A i \in 1..Len(fullOut.x) :
                 /\ fullOut.x[i] >= 0 /\ fullOut.x[i] <= span
                 /\ fullOut.x[i] <= beamArgs.half_span =>
                      Near(fullOut.y[i], HalfCurveY(halfOut, fullOut.x[i]))
                 /\ fullOut.x[i] >= beamArgs.half_span =>
                      Near(fullOut.y[i], HalfCurveY(halfOut, span - fullOut.x[i]))
            /\ LastX(fullOut) = span
            /\ Near(LastY(fullOut), 0)
            /\ \E i \in 1..Len(fullOut.x) :
                 /\ fullOut.x[i] = beamArgs.half_span
                 /\ Near(fullOut.y[i], LastY(halfOut))

\* Both generators returned for a curved beam sampled on different grids.
C30_Witness ==
    /\ halfOut.kind = "returned" /\ fullOut.kind = "returned"
    /\ ValidBeamArgs(beamArgs)
    /\ beamArgs.initial_offset > 0
    /\ Len(fullOut.x) = 120
    /\ Len(halfOut.x) = 64
    /\ fullOut.A > 0

(***************************************************************************)
(* C4 (as stated): whenever flex_ratio is not strictly between 0 and 1,    *)
(* half_span <= 0 or initial_offset < 0, building the half-beam centerline *)
(* fails with a GeometryError and returns no curve and no NaN samples.     *)
(***************************************************************************)
C4_InvalidArgsRejected ==
    (halfOut.kind # "none" /\ ~ValidBeamArgs(beamArgs))
        => halfOut.kind = "GeometryError"

(***************************************************************************)
(* C5 (as stated): for every valid half-beam spec the centerline has slope *)
(* dy/dx = 0 at x = 0 (anchor) and at x = half_span (shuttle end).         *)
(***************************************************************************)
C5_ClampedBothEnds ==
    (halfOut.kind = "returned" /\ ValidBeamArgs(beamArgs))
        => /\ Near(HalfDyDx(halfOut, 0), 0)
           /\ Near(HalfDyDx(halfOut, beamArgs.half_span), 0)

(***************************************************************************)
(* C6: for every valid half-beam spec the first sample of the half-beam    *)
(* centerline is (0, 0) and the last is (half_span, initial_offset) (y to  *)
(* within the tolerance); for half_span = 20, flex_ratio = 0.3,            *)
(* initial_offset = 1.2: L_flex = 6, L_rigid = 14 and the last y is 1.2.   *)
(***************************************************************************)
C6_Endpoints ==
    (halfOut.kind = "returned" /\ ValidBeamArgs(beamArgs))
        => /\ halfOut.x[1] = 0
           /\ halfOut.y[1] = 0
           /\ LastX(halfOut) = beamArgs.half_span
           /\ Near(LastY(halfOut), beamArgs.initial_offset)
           /\ ScenarioA(beamArgs) =>
                 /\ halfOut.L_flex = Milli(6000)
                 /\ halfOut.L_rigid = Milli(14000)
                 /\ Near(LastY(halfOut), Milli(1200))

\* Scenario A was computed.
C6_Witness ==
    /\ halfOut.kind = "returned"
    /\ ScenarioA(beamArgs)
    /\ Len(halfOut.x) = 2 * MinSec

(***************************************************************************)
(* C7 (as stated): both generators are C1-continuous at every section      *)
(* boundary: y and dy/dx of the two adjoining sections agree at x = L_flex *)
(* (both generators), at the span midpoint and at x = span - L_flex (full  *)
(* beam).                                                                  *)
(***************************************************************************)
C7_HalfJunctionC1 ==
    (halfOut.kind = "returned" /\ ValidBeamArgs(beamArgs)) =>
        LET o == halfOut
        IN  /\ Near(FlexY(o.A, o.L_flex, o.L_flex), LineY(o.A, o.slope, o.L_flex, o.L_flex))
            /\ Near(FlexDyDx(o.A, o.L_flex, o.L_flex), o.slope)

C7_FullBoundariesC1 ==
    (fullOut.kind = "returned" /\ ValidBeamArgs(beamArgs)) =>
        LET o    == fullOut
            h    == beamArgs.initial_offset
            half == beamArgs.half_span
            span == 2 * beamArgs.half_span
        IN  \* flex / rigid junction at x = L_flex
            /\ Near(FlexY(o.A, o.L_flex, o.L_flex), LineY(o.A, o.slope, o.L_flex, o.L_flex))
            /\ Near(FlexDyDx(o.A, o.L_flex, o.L_flex), o.slope)
            \* rigid / rigid boundary at the span midpoint
            /\ Near(LineY(o.A, o.slope, half, o.L_flex), LineY(h, -o.slope, half, half))
            /\ Near(o.slope, -o.slope)
            \* rigid / flex junction at x = span - L_flex
            /\ Near(LineY(h, -o.slope, span - o.L_flex, half), FlexY(o.A, o.L_flex, o.L_flex))
            /\ Near(-o.slope, -FlexDyDx(o.A, o.L_flex, o.L_flex))

C7_C1Continuous == C7_HalfJunctionC1 /\ C7_FullBoundariesC1

(***************************************************************************)
(* C8 (as stated): for every valid spec (flex_ratio in (0,1), half_span >  *)
(* 0, initial_offset >= 0) the amplitude satisfies 0 < A <= initial_offset.*)
(***************************************************************************)
C8_AmplitudePositive ==
    (halfOut.kind = "returned" /\ ValidBeamArgs(beamArgs))
        => (0 < halfOut.A /\ halfOut.A <= beamArgs.initial_offset)

(***************************************************************************)
(* C8 (amended): for every valid spec 0 <= A <= initial_offset, and A > 0  *)
(* exactly when initial_offset > 0 (A = 0 for a flat beam, whose           *)
(* initial_offset = 0 is a valid spec).                                    *)
(***************************************************************************)
C8_AmplitudeBounded ==
    (halfOut.kind = "returned" /\ ValidBeamArgs(beamArgs))
        => /\ 0 <= halfOut.A
           /\ halfOut.A <= beamArgs.initial_offset
           /\ (halfOut.A > 0) <=> (beamArgs.initial_offset > 0)

\* A valid curved beam whose amplitude is strictly inside (0, initial_offset).
C8_Witness ==
    /\ halfOut.kind = "returned"
    /\ ValidBeamArgs(beamArgs)
    /\ 0 < halfOut.A
    /\ halfOut.A < beamArgs.initial_offset

(***************************************************************************)
(* F1_simplified  (bistable_beam_simulation.py 96-133; the copy in         *)
(* bistable_beam_interactive.py 28-41 is the same code)                    *)
(*                                                                         *)
(* Q, Delta and the roots are reals at resolution 1e-6; forces, which      *)
(* reach several thousand, are reals at resolution 1e-3 (ToF).  A float    *)
(* product of non-zero factors of these magnitudes is never zero, so a     *)
(* product of forces is rounded away from zero.                            *)
(***************************************************************************)

\* A real at the resolution of forces.
ToF(a) == a \div RT

\* force * real, rounded away from zero.
MulAwayAbs(a, b) ==
    LET ah == a \div RT
        al == a % RT
        bh == b \div RT
        bl == b % RT
        lo == ah * bl + al * bh + (al * bl + RT - 1) \div RT
    IN  ah * bh + (lo + RT - 1) \div RT

MulF(a, b) ==
    IF (a < 0) = (b < 0) THEN MulAwayAbs(Abs(a), Abs(b)) ELSE -MulAwayAbs(Abs(a), Abs(b))

\* np.sqrt(d) for d >= 0: the largest r with r * r <= d, by bisection.
RECURSIVE SqrtBisect(_, _, _)
SqrtBisect(lo, hi, d) ==
    IF hi - lo <= 1 THEN lo
    ELSE LET mid == (lo + hi) \div 2
         IN  IF Mul(mid, mid) <= d THEN SqrtBisect(mid, hi, d) ELSE SqrtBisect(lo, mid, d)

Sqrt(d) == SqrtBisect(0, 2 * SC, d)

\* discriminant = 0.25 - 4/(3*Q**2)   (Q # 0)
DiscriminantOne(Q) == SC \div 4 - Div(SC, 3 * Mul(Q, Q))
Discriminant(Q) == SC \div 4 - Div(4 * SC, 3 * Mul(Q, Q))

\* coeff = 3 * np.pi**4 * Q**2 / 2
Coeff(Q) == MulF(3 * ToF(Mul(Mul(PI, PI), Mul(PI, PI))), Mul(Q, Q)) \div 2

\* root1 = 1.5 - sqrt_term ; root2 = 1.5 + sqrt_term
Root1Same(sqrt_term) == (3 * SC) \div 2 + sqrt_term
Root1(sqrt_term) == (3 * SC) \div 2 - sqrt_term
Root2(sqrt_term) == (3 * SC) \div 2 + sqrt_term

\* One entry of the returned array: NaN, or a force.
NaN == [nan |-> TRUE, v |-> 0]
Force(v) == [nan |-> FALSE, v |-> v]

NoF1 == [kind |-> "none", F |-> <<>>, root1 |-> 0, root2 |-> 0]

F1_simplified(Delta, Q, np_float) ==
    IF Mul(Q, Q) = 0
    THEN \* 4/(3*Q**2): ZeroDivisionError for a Python float; for a numpy
         \* scalar the quotient is inf, the discriminant -inf, the result NaN
         IF np_float
         THEN [NoF1 EXCEPT !.kind = "nan", !.F = [i \in 1..Len(Delta) |-> NaN]]
         ELSE [NoF1 EXCEPT !.kind = "ZeroDivisionError"]
    ELSE
    LET discriminant == Discriminant(Q)
    IN  IF discriminant < 0
        THEN [NoF1 EXCEPT !.kind = "nan", !.F = [i \in 1..Len(Delta) |-> NaN]]
        ELSE
        LET sqrt_term == Sqrt(discriminant)
            coeff == Coeff(Q)
            root1 == Root1(sqrt_term)
            root2 == Root2(sqrt_term)
        IN  [kind |-> "real",
             F |-> [i \in 1..Len(Delta) |->
                     Force(MulF(MulF(MulF(coeff, Delta[i]), Delta[i] - root1),
                                Delta[i] - root2))],
             root1 |-> root1, root2 |-> root2]

\* Q values around both candidate thresholds (2/sqrt(3) = 1.1547 and
\* 4/sqrt(3) = 2.3094), the value of Fig. 4 (Q = 6), zero and negative Q.
QValues ==
    {Milli(q) : q \in {1000, 1100, 1150, 1160, 1200, 2000, 2300, 2310, 2400,
                       3000, 6000, 0, -1000, -6000}}

\* Number of intervals of the finest grid on [0, 2].
GridN == 40

\* np.linspace(0, 2, n + 1)
Grid(n) == [i \in 1..(n + 1) |-> LinspaceClosed(0, 2 * SC, n + 1, i - 1)]

\* Delta arguments: grids over [0, 2] and scalars (np.atleast_1d makes a
\* one-element array of a scalar).
DeltaArrays ==
    {Grid(GridN), Grid(GridN \div 2), Grid(8)}
        \cup {<<d>> : d \in {0, Milli(500), Milli(1500), 2 * SC}}

F1Init ==
    /\ f1Q \in QValues
    /\ f1Np \in BOOLEAN
    /\ f1Delta \in DeltaArrays
    /\ f1Out = NoF1

\* The force model is not evaluated.
F1Idle ==
    /\ f1Q = 6 * SC
    /\ f1Np = FALSE
    /\ f1Delta = <<>>
    /\ f1Out = NoF1

\* One call F1_simplified(Delta, Q).
EvalF1 ==
    /\ f1Out.kind = "none"
    /\ f1Out' = F1_simplified(f1Delta, f1Q, f1Np)
    /\ UNCHANGED <<f1Q, f1Np, f1Delta, bcVars, meshVars, beamVars,
                   springVars, lcVars, widthVars,
                   xlimVars, evVars>>

F1Next == EvalF1

AllNaN(out) == \A i \in 1..Len(out.F) : out.F[i].nan
AllReal(out) == \A i \in 1..Len(out.F) : ~out.F[i].nan

\* 3 * Q^2 compared with c (Q a multiple of 0.001): Q^2 < c/3, exactly.
ThreeQSquared(Q) == 3 * (Q \div RT) * (Q \div RT)

RECURSIVE SignChangesFrom(_, _, _)
\* Sign changes of F[i..] given the sign (-1, 0, 1) of the last non-zero entry.
SignChangesFrom(F, i, last) ==
    IF i > Len(F) THEN 0
    ELSE LET sg == IF F[i].v > 0 THEN 1 ELSE IF F[i].v < 0 THEN -1 ELSE 0
         IN  IF sg = 0 THEN SignChangesFrom(F, i + 1, last)
             ELSE (IF last # 0 /\ sg # last THEN 1 ELSE 0)
                    + SignChangesFrom(F, i + 1, sg)

SignChanges(F) == SignChangesFrom(F, 1, 0)

\* Delta is a grid over [0, 2] (not a scalar).
IsGrid(D) == Len(D) > 1 /\ D[1] = 0 /\ D[Len(D)] = 2 * SC

(***************************************************************************)
(* C10: for every Q above the real-root threshold (3 Q^2 > 16, e.g. Q = 6) *)
(* F1_simplified over Delta in [0, 2] has exactly two zero crossings       *)
(* r1 < r2, both strictly inside (0, 2) (indeed 1 < r1 < 1.5 < r2 < 2), is *)
(* strictly positive on (0, r1) and strictly negative on (r1, r2); sampled *)
(* on a grid over [0, 2] with a sample between r1 and r2 the force changes *)
(* sign exactly twice.                                                     *)
(***************************************************************************)
C10_TwoInteriorCrossings ==
    (f1Out.kind = "real" /\ ThreeQSquared(f1Q) > 16 * SC) =>
        LET r1 == f1Out.root1
            r2 == f1Out.root2
        IN  /\ SC < r1 /\ r1 < (3 * SC) \div 2
            /\ (3 * SC) \div 2 < r2 /\ r2 < 2 * SC
            /\ \A i \in 1..Len(f1Delta) :
                  /\ (0 < f1Delta[i] /\ f1Delta[i] < r1) => f1Out.F[i].v > 0
                  /\ (r1 < f1Delta[i] /\ f1Delta[i] < r2) => f1Out.F[i].v < 0
                  /\ (r2 < f1Delta[i] /\ f1Delta[i] <= 2 * SC) => f1Out.F[i].v > 0
            /\ (/\ IsGrid(f1Delta)
                /\ \E i \in 1..Len(f1Delta) : r1 < f1Delta[i] /\ f1Delta[i] < r2)
                  => SignChanges(f1Out.F) = 2

\* Q = 6 on the finest grid: positive before r1, negative between r1 and r2.
C10_Witness ==
    /\ f1Q = 6 * SC
    /\ f1Out.kind = "real"
    /\ Len(f1Delta) = GridN + 1
    /\ \E i \in 1..Len(f1Delta) : f1Delta[i] < f1Out.root1 /\ f1Out.F[i].v > 0
    /\ \E i \in 1..Len(f1Delta) :
          f1Out.root1 < f1Delta[i] /\ f1Delta[i] < f1Out.root2 /\ f1Out.F[i].v < 0

(***************************************************************************)
(* C11 (as stated): for every Q below the discriminant threshold           *)
(* (3 Q^2 < 16), Q = 0 included, F1_simplified returns an all-NaN array    *)
(* with one entry per input Delta and never raises an exception.           *)
(***************************************************************************)
C11_NaNNeverRaises ==
    (f1Out.kind # "none" /\ ThreeQSquared(f1Q) < 16 * SC) =>
        /\ f1Out.kind = "nan"
        /\ Len(f1Out.F) = Len(f1Delta)
        /\ AllNaN(f1Out)

(***************************************************************************)
(* _compute_half_width_profile (ccs_bistable_beam.py 148-186) and the      *)
(* half-beam polygon builders get_beam_polygon (beam_utils.py 61-82) and   *)
(* _half_beam_polygon (full_spring_utils.py 54-72), which are the same     *)
(* code.                                                                   *)
(***************************************************************************)

\* np.cos(th) for 0 <= th <= pi.
CosFull(th) == IF 2 * th <= PI THEN Cos(th) ELSE -Cos(PI - th)

\* t_start = L_flex - taper_length / 2.0 ; t_end = L_flex + taper_length / 2.0
TStart(a) == LFlex(a.half_span, a.flex_ratio) - a.taper_length \div 2
TEnd(a) == LFlex(a.half_span, a.flex_ratio) + a.taper_length \div 2

\* t = (x[mask] - t_start) / taper_length
TaperT(a, x) == Div(x - TStart(a), a.taper_length)

\* flex_width + (rigid_width - flex_width) * 0.5 * (1.0 - np.cos(np.pi * t))
TaperWidthLinear(a, t) == a.flex_width + Mul(a.rigid_width - a.flex_width, t)
TaperWidth(a, t) ==
    a.flex_width
        + Mul(a.rigid_width - a.flex_width, (SC - CosFull(Mul(PI, t))) \div 2)

\* w = np.full_like(x, rigid_width); w[x <= t_start] = flex_width;
\* w[(x > t_start) & (x < t_end)] = the cosine interpolant
_compute_half_width_profile(x, a) ==
    [i \in 1..Len(x) |->
        IF x[i] <= TStart(a) THEN a.flex_width
        ELSE IF x[i] < TEnd(a) THEN TaperWidth(a, TaperT(a, x[i]))
        ELSE a.rigid_width]

\* _compute_width_profile: lt_start, lt_end, rt_start, rt_end around the two
\* junctions x = L_flex and x = span - L_flex, with L_flex = flex_ratio * span / 2.0
LtStart(a, span) == LFlex(span \div 2, a.flex_ratio) - a.taper_length \div 2
LtEnd(a, span) == LFlex(span \div 2, a.flex_ratio) + a.taper_length \div 2
RtStart(a, span) == span - LFlex(span \div 2, a.flex_ratio) - a.taper_length \div 2
RtEnd(a, span) == span - LFlex(span \div 2, a.flex_ratio) + a.taper_length \div 2

\* rigid_width + (flex_width - rigid_width) * 0.5 * (1.0 - np.cos(np.pi * t))
RightTaperWidth(a, t) ==
    a.rigid_width
        + Mul(a.flex_width - a.rigid_width, (SC - CosFull(Mul(PI, t))) \div 2)

\* The four masked assignments in their order: a later one overwrites an
\* earlier one.
_compute_width_profile(x, span, a) ==
    [i \in 1..Len(x) |->
        IF x[i] >= RtEnd(a, span) THEN a.flex_width
        ELSE IF x[i] > RtStart(a, span) /\ x[i] < RtEnd(a, span)
             THEN RightTaperWidth(a, Div(x[i] - RtStart(a, span), a.taper_length))
        ELSE IF x[i] > LtStart(a, span) /\ x[i] < LtEnd(a, span)
             THEN TaperWidth(a, Div(x[i] - LtStart(a, span), a.taper_length))
        ELSE IF x[i] <= LtStart(a, span) THEN a.flex_width
        ELSE a.rigid_width]

\* What a call hands to its caller besides the returned arrays: neither
\* function warns, logs or returns a status.
Warnings == {}

\* np.allclose(p, q): |p - q| <= atol + rtol * |q| in both coordinates, with
\* rtol = 1e-5 and atol = 1e-8 (below the resolution).
AllClose(p, q) ==
    \A k \in 1..2 : Abs(p[k] - q[k]) <= Abs(q[k]) \div 10^5

\* upper = np.column_stack([x_c, y_c + w / 2.0])
UpperEdge(x, y, w) == [i \in 1..Len(x) |-> <<x[i], y[i] + w[i] \div 2>>]

\* lower = np.column_stack([x_c[::-1], (y_c - w / 2.0)[::-1]])
LowerEdgeForward(x, y, w) == [i \in 1..Len(x) |-> <<x[i], y[i] - w[i] \div 2>>]
LowerEdge(x, y, w) ==
    [i \in 1..Len(x) |-> <<x[Len(x) + 1 - i], y[Len(x) + 1 - i] - w[Len(x) + 1 - i] \div 2>>]

\* polygon = np.vstack([upper, lower]), closed with its first point unless
\* first and last are already close.
ClosedLoop(poly) ==
    IF Len(poly) > 0 /\ ~AllClose(poly[1], poly[Len(poly)])
    THEN Append(poly, poly[1]) ELSE poly

NoPolygon ==
    [kind |-> "none", x |-> <<>>, y |-> <<>>, w |-> <<>>, polygon |-> <<>>,
     warnings |-> {}]

get_beam_polygon(a) ==
    LET c == _compute_ccs_half_centerline(a.half_span, a.flex_ratio,
                                          a.initial_offset, a.n_points, FALSE)
    IN  IF c.kind # "returned" THEN [NoPolygon EXCEPT !.kind = c.kind]
        ELSE LET w == _compute_half_width_profile(c.x, a)
             IN  [kind |-> "returned", x |-> c.x, y |-> c.y, w |-> w,
                  polygon |-> ClosedLoop(UpperEdge(c.x, c.y, w) \o LowerEdge(c.x, c.y, w)),
                  warnings |-> Warnings]

\* The width of the full beam of make_ccs_beam: _compute_ccs_centerline on
\* span, then _compute_width_profile on its x.
FullBeamWidth(a) ==
    LET span == 2 * a.half_span
        c == _compute_ccs_centerline(span, a.flex_ratio, a.initial_offset,
                                     a.n_points, FALSE)
    IN  IF c.kind # "returned" THEN [NoPolygon EXCEPT !.kind = c.kind]
        ELSE [kind |-> "returned", x |-> c.x, y |-> c.y,
              w |-> _compute_width_profile(c.x, span, a),
              polygon |-> <<>>, warnings |-> Warnings]

\* DEFAULT_BEAM_PARAMS and the signature of get_beam_polygon
WidthDefaults ==
    [half_span |-> Milli(20000), flex_ratio |-> Milli(300),
     flex_width |-> Milli(500), rigid_width |-> 937500,
     initial_offset |-> Milli(1200), taper_length |-> Milli(2000),
     n_points |-> 400]

\* Widths over [0.1, 5.0], tapers shorter than half_span (one of them longer
\* than twice L_flex, so that the curve starts inside the taper), and the
\* sample counts of the centerline model.
WidthArgSets ==
    { [WidthDefaults EXCEPT !.half_span = hs, !.flex_ratio = fr,
                            !.flex_width = fw, !.rigid_width = rw,
                            !.taper_length = tl, !.n_points = n] :
        hs \in {Milli(20000), Milli(36500)},
        fr \in {Milli(300), Milli(500)},
        fw \in {Milli(100), Milli(500), Milli(5000)},
        rw \in {Milli(100), 937500, Milli(5000)},
        tl \in {0, Milli(500), Milli(2000), Milli(14000)},
        n \in NPoints }

WidthInit ==
    /\ wArgs \in WidthArgSets
    /\ wOut = NoPolygon
    /\ wFull = NoPolygon

\* No polygon is requested.
WidthIdle ==
    /\ wArgs = WidthDefaults
    /\ wOut = NoPolygon
    /\ wFull = NoPolygon

\* One call get_beam_polygon(**wArgs).
GetBeamPolygon ==
    /\ wOut.kind = "none"
    /\ wOut' = get_beam_polygon(wArgs)
    /\ UNCHANGED <<wArgs, wFull, bcVars, meshVars, beamVars, f1Vars, springVars, lcVars,
                   xlimVars, evVars>>

\* One evaluation of the width of the full beam on the same arguments.
ComputeWidthProfile ==
    /\ wFull.kind = "none"
    /\ wFull' = FullBeamWidth(wArgs)
    /\ UNCHANGED <<wArgs, wOut, bcVars, meshVars, beamVars, f1Vars, springVars, lcVars,
                   xlimVars, evVars>>

WidthNext == GetBeamPolygon \/ ComputeWidthProfile

\* The spec domain of the polygon builders.
WidthDomain(a) ==
    /\ a.flex_width >= Milli(100) /\ a.flex_width <= Milli(5000)
    /\ a.rigid_width >= Milli(100) /\ a.rigid_width <= Milli(5000)
    /\ a.taper_length > 0 /\ a.taper_length < a.half_span

\* Largest change of the cosine interpolant over a step dx: its slope is at
\* most |rigid_width - flex_width| * (pi / 2) / taper_length.
TaperStepBound(a, dx) ==
    Mul(Mul(Abs(a.rigid_width - a.flex_width), PI \div 2), Div(dx, a.taper_length)) + Eps

\* The width is a pure step at the junction x = L_flex (and, on the full
\* beam, its mirror image at span - L_flex).
PureStep(a, out, span) ==
    \A i \in 1..Len(out.x) :
        out.w[i] = IF out.x[i] <= LFlex(a.half_span, a.flex_ratio)
                      \/ out.x[i] >= span - LFlex(a.half_span, a.flex_ratio)
                   THEN a.flex_width ELSE a.rigid_width

(***************************************************************************)
(* C24 (as stated): with taper_length = 0 the width-profile functions do   *)
(* not fail (no division by zero, no NaN): they return a pure step,        *)
(* flex_width for x <= L_flex and rigid_width for x > L_flex, and the      *)
(* zero-length taper is flagged to the caller rather than rejected.        *)
(***************************************************************************)
C24_ZeroTaperStepFlagged ==
    wArgs.taper_length = 0 =>
        /\ wOut.kind \in {"none", "returned"}
        /\ wFull.kind \in {"none", "returned"}
        /\ wOut.kind = "returned" =>
             /\ PureStep(wArgs, wOut, 4 * wArgs.half_span)
             /\ wOut.warnings # {}
        /\ wFull.kind = "returned" =>
             /\ PureStep(wArgs, wFull, 2 * wArgs.half_span)
             /\ wFull.warnings # {}

C18_WidthProfile ==
    (wOut.kind = "returned" /\ wArgs.taper_length > 0) =>
        LET a  == wArgs
            x  == wOut.x
            w  == wOut.w
            fw == a.flex_width
            rw == a.rigid_width
            t0 == LFlex(a.half_span, a.flex_ratio) - a.taper_length \div 2
            t1 == LFlex(a.half_span, a.flex_ratio) + a.taper_length \div 2
            Interp(t) == fw + Mul(rw - fw, (SC - CosFull(Mul(PI, t))) \div 2)
        IN  /\ Len(w) = Len(x)
            /\ \A i \in 1..Len(x) :
                 /\ x[i] <= t0 => w[i] = fw
                 /\ x[i] >= t1 => w[i] = rw
                 /\ (t0 < x[i] /\ x[i] < t1) =>
                       /\ 0 < Div(x[i] - t0, a.taper_length)
                       /\ Div(x[i] - t0, a.taper_length) < SC
                       /\ w[i] = Interp(Div(x[i] - t0, a.taper_length))
                       /\ Min(fw, rw) <= w[i] /\ w[i] <= Max(fw, rw)
                 /\ w[i] \notin {fw, rw} => (t0 < x[i] /\ x[i] < t1)
            /\ Near(Interp(0), fw)
            /\ Near(Interp(SC), rw)
            /\ \A i \in 1..(Len(x) - 1) :
                 Abs(w[i + 1] - w[i]) <= TaperStepBound(a, x[i + 1] - x[i])

\* A profile with samples in the flex section, inside the taper (strictly
\* between the two widths) and in the rigid section.
C18_Witness ==
    /\ wOut.kind = "returned"
    /\ wArgs.flex_width < wArgs.rigid_width
    /\ \E i, j, k \in 1..Len(wOut.w) :
         /\ i < j /\ j < k
         /\ wOut.w[i] = wArgs.flex_width
         /\ wArgs.flex_width < wOut.w[j] /\ wOut.w[j] < wArgs.rigid_width
         /\ wOut.w[k] = wArgs.rigid_width

\* The requested n_points, spread over half_span, put fewer than two samples
\* inside the taper.
TaperUnresolved(a) == a.n_points * a.taper_length < 2 * a.half_span

(***************************************************************************)
(* C19 (as stated): when the requested number of samples is too small to   *)
(* resolve the taper, building a beam polygon fails with a GeometryError;  *)
(* the builder never silently replaces the requested n_points by a         *)
(* different sample count.                                                 *)
(***************************************************************************)
C19_NoSilentResampling ==
    wOut.kind # "none" =>
        /\ TaperUnresolved(wArgs) => wOut.kind = "GeometryError"
        /\ wOut.kind = "returned" => Len(wOut.x) = wArgs.n_points

Beams == {"LU", "LL", "RU", "RL"}
Gussets == {"GLU", "GLL", "GRU", "GRL"}
SignY(m) == IF m \in {"LU", "RU", "GLU", "GRU"} THEN 1 ELSE -1
SideOf(m) == IF m \in {"LU", "LL", "GLU", "GLL"} THEN "L" ELSE "R"
BeamOf(g) == CHOOSE b \in Beams : SignY(b) = SignY(g) /\ SideOf(b) = SideOf(g)

SpringDefaults ==
    [anchor_distance |-> Milli(80000), beam_spacing |-> Milli(10000),
     shuttle_length |-> Milli(7000), shuttle_height |-> Milli(12000),
     flex_ratio |-> Milli(300), flex_width |-> Milli(500),
     rigid_width |-> 937500, initial_offset |-> Milli(1200),
     taper_length |-> Milli(2000), n_points |-> 400, fillet_radius |-> 0,
     junction_widening |-> 0]

\* Argument sets: the default geometry, beams spaced wider than the shuttle
\* is high, a rigid section thinner than the flex section, a hair-thin flex
\* section, fillets and gussets.  Gussets are combined only with
\* fillet_radius = 0.  Curved and straight beams with gussets.  Anchor
\* distances and shuttle lengths whose half difference is or is not a
\* multiple of the resolution (floating point rounds half_span in the same
\* way, at its own resolution: anchor_distance = 40.0, shuttle_length = 1.2
\* give -half_span + 40.0 = 20.6 but half_span + 1.2 = 20.599999999999998).
\* The outlines are sampled with the smallest number of points per section.
SpringArgSets ==
    { a \in { [SpringDefaults EXCEPT !.n_points = 0,
                                    !.beam_spacing = bs, !.shuttle_height = sh,
                                    !.flex_width = fw, !.rigid_width = rw,
                                    !.fillet_radius = fr, !.junction_widening = jw] :
                bs \in {Milli(10000), Milli(30000)},
                sh \in {Milli(12000), Milli(4000)},
                fw \in {Milli(500), Milli(30)},
                rw \in {937500, Milli(200)},
                fr \in {0, Milli(100), Milli(300)},
                jw \in {0, Milli(300)} } :
        a.junction_widening > 0 => a.fillet_radius = 0 }
    \cup { [SpringDefaults EXCEPT !.n_points = 0,
                                  !.initial_offset = h, !.junction_widening = jw,
                                  !.beam_spacing = bs] :
             h \in {0, Milli(2000)}, jw \in {Milli(300), Milli(1000)},
             bs \in {Milli(10000), Milli(8000)} }
    \cup { [SpringDefaults EXCEPT !.n_points = n,
                                  !.anchor_distance = ad, !.shuttle_length = sl] :
             n \in {0, 64},
             ad \in {Milli(80000), Milli(40000), 80000001},
             sl \in {Milli(7000), Milli(1200), 7000001} }

\* half_span = (anchor_distance - shuttle_length) / 2.0 ; half_sp = beam_spacing / 2.0
SpringHalfSpan(a) == (a.anchor_distance - a.shuttle_length) \div 2
HalfSp(a) == a.beam_spacing \div 2

\* gusset_taper = 2.0
GussetTaper == 2 * SC

\* polys: the pieces of the members handed to unary_union.
BeamPieces == {<<b, part>> : b \in Beams, part \in {"flex", "rigid"}}
ShuttlePiece == <<"S", "shuttle">>
GussetPieces == {<<g, "gusset">> : g \in Gussets}
Requested(a) ==
    BeamPieces \cup {ShuttlePiece}
        \cup (IF a.junction_widening > 0 THEN GussetPieces ELSE {})

\* Narrowest extent of a piece.
PieceWidth(a, pc) ==
    IF pc[2] = "flex" THEN a.flex_width
    ELSE IF pc[2] = "rigid" THEN a.rigid_width
    ELSE IF pc[2] = "shuttle" THEN Min(a.shuttle_length, a.shuttle_height)
    ELSE 2 * a.junction_widening

PieceArea(a, pc) ==
    LET Lf == Mul(a.flex_ratio, SpringHalfSpan(a))
    IN  IF pc[2] = "flex" THEN Mul(a.flex_width, Lf)
        ELSE IF pc[2] = "rigid" THEN Mul(a.rigid_width, SpringHalfSpan(a) - Lf)
        ELSE IF pc[2] = "shuttle" THEN Mul(a.shuttle_length, a.shuttle_height)
        ELSE Mul(a.junction_widening, GussetTaper)

RECURSIVE AreaOf(_, _)
AreaOf(a, pcs) ==
    IF pcs = {} THEN 0
    ELSE LET pc == CHOOSE q \in pcs : TRUE
         IN  PieceArea(a, pc) + AreaOf(a, pcs \ {pc})

\* shuttle_rect: sx0 = half_span, sx1 = half_span + shuttle_length,
\* sy_center = initial_offset, sy_half = shuttle_height / 2.0
ShuttleRect(a) ==
    LET sx0 == SpringHalfSpan(a)
        sx1 == SpringHalfSpan(a) + a.shuttle_length
        lo  == a.initial_offset - a.shuttle_height \div 2
        hi  == a.initial_offset + a.shuttle_height \div 2
    IN  << <<sx0, lo>>, <<sx1, lo>>, <<sx1, hi>>, <<sx0, hi>> >>

\* Whether the shuttle end of the placed beam reaches the face of the shuttle
\* (touches it or overlaps it) rather than stopping short of it.
ReachesFace(a, b) ==
    IF SideOf(b) = "L" THEN SpringHalfSpan(a) >= ShuttleRect(a)[1][1]
    ELSE (0 - SpringHalfSpan(a)) + a.anchor_distance <= ShuttleRect(a)[2][1]

\* Length of the common part of [c1 - h1, c1 + h1] and [c2 - h2, c2 + h2].
Overlap(c1, h1, c2, h2) == Min(c1 + h1, c2 + h2) - Max(c1 - h1, c2 - h2)

\* Length over which the end of a beam (a gusset base) lies on the shuttle face.
BeamShuttleContact(a, sy) ==
    Overlap(sy * HalfSp(a), a.rigid_width \div 2, 0, a.shuttle_height \div 2)
GussetShuttleContact(a, sy) ==
    Overlap(sy * HalfSp(a), a.junction_widening, 0, a.shuttle_height \div 2)

\* max_safe = flex_width / 2.0 - 0.02 ; r = min(fillet_radius, max_safe) ;
\* the buffers are applied only if r > 0 (0: no erosion).
MaxSafe(a) == a.flex_width \div 2 - Milli(20)
ErosionRadius(a) ==
    IF a.fillet_radius > 0
    THEN LET r == Min(a.fillet_radius, MaxSafe(a)) IN IF r > 0 THEN r ELSE 0
    ELSE 0

\* merged.buffer(-r).buffer(+r): what is not wider than 2 r is eroded away.
Survives(a, pc, r) == r = 0 \/ PieceWidth(a, pc) > 2 * r

\* Two pieces form one region when they overlap or share an edge wider than 2 r.
Joined(a, r, p, q) ==
    \/ p[1] = q[1]
    \/ /\ p[2] = "rigid" /\ q[2] = "shuttle"
       /\ BeamShuttleContact(a, SignY(p[1])) > 2 * r
       /\ ReachesFace(a, p[1])
    \/ /\ p[2] = "gusset" /\ q[2] = "shuttle"
       /\ GussetShuttleContact(a, SignY(p[1])) > 0
    \/ /\ p[2] = "gusset" /\ q[2] = "rigid" /\ q[1] = BeamOf(p[1])
    \/ /\ p[2] = q[2] /\ p[2] \in {"flex", "rigid"}
       /\ SideOf(p[1]) = SideOf(q[1])
       /\ a.beam_spacing < PieceWidth(a, p) - 2 * r

RECURSIVE Region(_, _, _, _)
\* The pieces of pcs connected to the set seen.
Region(a, r, pcs, seen) ==
    LET more == {q \in pcs \ seen :
                    \E p \in seen : Joined(a, r, p, q) \/ Joined(a, r, q, p)}
    IN  IF more = {} THEN seen ELSE Region(a, r, pcs, seen \cup more)

\* merged.geoms
Geoms(a, r, pcs) == {Region(a, r, pcs, {p}) : p \in pcs}

\* max(merged.geoms, key=lambda g: g.area): among equal areas the first of
\* Shapely's order, which the arguments do not determine.
Largest(a, geoms) == {g \in geoms : \A h \in geoms : AreaOf(a, g) >= AreaOf(a, h)}

\* Centre y of the end of a beam on the shuttle face:
\* beam_ys = [initial_offset + half_sp, initial_offset - half_sp]
BeamY(a, sy) == a.initial_offset + sy * HalfSp(a)

\* The gusset at the shuttle face of beam BeamOf(g): base on the face
\* (x = sx0 for the left beams, sx1 = sx0 + shuttle_length for the right
\* ones), apex gusset_taper away from it.
GussetTriangleHalfBase(a, g) ==
    LET face == IF SideOf(g) = "L" THEN SpringHalfSpan(a)
                ELSE SpringHalfSpan(a) + a.shuttle_length
        tip  == IF SideOf(g) = "L" THEN face - GussetTaper ELSE face + GussetTaper
    IN  << <<face, BeamY(a, SignY(g)) - a.junction_widening \div 2>>,
           <<face, BeamY(a, SignY(g)) + a.junction_widening \div 2>>,
           <<tip, BeamY(a, SignY(g))>> >>
GussetTriangle(a, g) ==
    LET face == IF SideOf(g) = "L" THEN SpringHalfSpan(a)
                ELSE SpringHalfSpan(a) + a.shuttle_length
        tip  == IF SideOf(g) = "L" THEN face - GussetTaper ELSE face + GussetTaper
    IN  << <<face, BeamY(a, SignY(g)) - a.junction_widening>>,
           <<face, BeamY(a, SignY(g)) + a.junction_widening>>,
           <<tip, BeamY(a, SignY(g))>> >>

\* The gusset polygons appended to polys: none unless junction_widening > 0.
GussetPolys(a) ==
    [g \in (IF a.junction_widening > 0 THEN Gussets ELSE {}) |-> GussetTriangle(a, g)]

\* hb = _half_beam_polygon(half_span, flex_ratio, flex_width, rigid_width,
\*                         initial_offset, taper_length, n_points)
HalfBeamArgs(a, n) ==
    [half_span |-> SpringHalfSpan(a), flex_ratio |-> a.flex_ratio,
     flex_width |-> a.flex_width, rigid_width |-> a.rigid_width,
     initial_offset |-> a.initial_offset, taper_length |-> a.taper_length,
     n_points |-> n]
_half_beam_polygon(h) ==
    LET c == _compute_ccs_half_centerline(h.half_span, h.flex_ratio,
                                          h.initial_offset, h.n_points, FALSE)
        w == _compute_half_width_profile(c.x, h)
    IN  ClosedLoop(UpperEdge(c.x, c.y, w) \o LowerEdge(c.x, c.y, w))

\* for sign_x, sign_y in [(-1, +1), (-1, -1), (+1, +1), (+1, -1)]
BeamOrder == <<"LU", "LL", "RU", "RL">>

\* if sign_x > 0: pts[:, 0] = -pts[:, 0] + anchor_distance
\* pts[:, 1] += sign_y * half_sp
PlacePts(pts, b, a) ==
    [i \in 1..Len(pts) |->
        << IF SideOf(b) = "R" THEN (0 - pts[i][1]) + a.anchor_distance ELSE pts[i][1],
           pts[i][2] + SignY(b) * HalfSp(a) >>]

\* pts = hb.copy(): the name pts is bound to a fresh array, not to hb.
PtsIsTemplate == "hb"
PtsTarget == "pts"

\* One turn of the placement loop on the arrays mem.hb and mem.pts.
PlaceBeam(mem, b, a) ==
    LET copied == [mem EXCEPT !.pts = mem.hb]
        placed == [copied EXCEPT ![PtsTarget] = PlacePts(copied[PtsTarget], b, a)]
    IN  [placed EXCEPT !.polys = Append(@, placed[PtsTarget])]

RECURSIVE PlaceFrom(_, _, _)
PlaceFrom(mem, k, a) ==
    IF k > Len(BeamOrder) THEN mem
    ELSE PlaceFrom(PlaceBeam(mem, BeamOrder[k], a), k + 1, a)

NoSpring ==
    [kind |-> "none", pieces |-> {}, r |-> 0, components |-> 0,
     area_pre |-> 0, area_post |-> 0, gussets |-> <<>>,
     hb |-> <<>>, polys |-> <<>>, shuttle_rect |-> <<>>]

\* The outline returned when the kept region is pick.
get_full_spring_polygon(a, pick) ==
    LET r     == ErosionRadius(a)
        post  == {pc \in Requested(a) : Survives(a, pc, r)}
        geoms == Geoms(a, r, post)
        mem   == PlaceFrom([hb |-> _half_beam_polygon(HalfBeamArgs(a, a.n_points)),
                            pts |-> <<>>, polys |-> <<>>], 1, a)
    IN  [kind       |-> "returned",
         pieces     |-> IF Cardinality(geoms) > 1 THEN pick ELSE post,
         r          |-> r,
         components |-> Cardinality(geoms),
         area_pre   |-> AreaOf(a, Requested(a)),
         area_post  |-> AreaOf(a, post),
         gussets    |-> GussetPolys(a),
         hb         |-> mem.hb,
         polys      |-> mem.polys,
         shuttle_rect |-> ShuttleRect(a)]

\* half_beam = make_ccs_half_beam(..., n_points=half_n): the polygon added
\* to the component, np.vstack([upper, lower]).
make_ccs_half_beam(h) ==
    LET c == _compute_ccs_half_centerline(h.half_span, h.flex_ratio,
                                          h.initial_offset, h.n_points, FALSE)
        w == _compute_half_width_profile(c.x, h)
    IN  UpperEdge(c.x, c.y, w) \o LowerEdge(c.x, c.y, w)

\* ref = c.add_ref(half_beam); on the right ref.dmirror_x() and
\* ref.dmovex(anchor_distance); ref.dmovey(sign_y * half_sp)
PlaceRef(pts, b, a) ==
    [i \in 1..Len(pts) |->
        << IF SideOf(b) = "R" THEN (0 - pts[i][1]) + a.anchor_distance
           ELSE pts[i][1],
           pts[i][2] + SignY(b) * HalfSp(a) >>]

\* make_proofmass: rectangle(size=(length, height)) moved by -length / 2 and
\* -height / 2; then shuttle_ref.dmovex(anchor_distance / 2.0) and
\* shuttle_ref.dmovey(initial_offset).
ShuttleRef(a) ==
    LET x0 == (0 - a.shuttle_length \div 2) + a.anchor_distance \div 2
        y0 == (0 - a.shuttle_height \div 2) + a.initial_offset
    IN  << <<x0, y0>>, <<x0 + a.shuttle_length, y0>>,
           <<x0 + a.shuttle_length, y0 + a.shuttle_height>>,
           <<x0, y0 + a.shuttle_height>> >>

NoComponent ==
    [kind |-> "none", half_n |-> 0, half_beam |-> <<>>, refs |-> <<>>,
     shuttle |-> <<>>, anchors |-> <<>>]

make_complete_spring(a) ==
    LET half_n    == Max(a.n_points \div 2, 100)
        half_beam == make_ccs_half_beam(HalfBeamArgs(a, half_n))
    IN  [kind      |-> "returned",
         half_n    |-> half_n,
         half_beam |-> half_beam,
         refs      |-> [k \in 1..Len(BeamOrder) |-> PlaceRef(half_beam, BeamOrder[k], a)],
         shuttle   |-> ShuttleRef(a),
         anchors   |-> <<0, a.anchor_distance>>]

SpringInit ==
    /\ springArgs \in SpringArgSets
    /\ springOut = NoSpring
    /\ springPrev = NoSpring
    /\ csOut = NoComponent

\* No outline is requested.
SpringIdle ==
    /\ springArgs = SpringDefaults
    /\ springOut = NoSpring
    /\ springPrev = NoSpring
    /\ csOut = NoComponent

\* One call get_full_spring_polygon(**springArgs); it may be repeated once.
GetFullSpringPolygon ==
    /\ springPrev.kind = "none"
    /\ springPrev' = springOut
    /\ LET r == ErosionRadius(springArgs)
           post == {pc \in Requested(springArgs) : Survives(springArgs, pc, r)}
       IN  \E pick \in Largest(springArgs, Geoms(springArgs, r, post)) :
               springOut' = get_full_spring_polygon(springArgs, pick)
    /\ UNCHANGED <<springArgs, csOut, bcVars, meshVars, beamVars, f1Vars, lcVars, widthVars,
                   xlimVars, evVars>>

\* One call make_complete_spring(**springArgs).
MakeCompleteSpring ==
    /\ csOut.kind = "none"
    /\ csOut' = make_complete_spring(springArgs)
    /\ UNCHANGED <<springArgs, springOut, springPrev,
                   bcVars, meshVars, beamVars, f1Vars, lcVars, widthVars,
                   xlimVars, evVars>>

SpringNext == GetFullSpringPolygon \/ MakeCompleteSpring

\* Area difference beyond which the fillet has eaten structural material.
AreaTol == Milli(10)

\* y of the centerline of beam b at the absolute position x: the half-beam
\* centerline (anchor at x = 0 for the left beams, mirrored about
\* anchor_distance for the right ones) shifted by sign_y * half_sp.
BeamCenterlineY(a, b, x) ==
    LET hs == SpringHalfSpan(a)
        Lf == LFlex(hs, a.flex_ratio)
        A  == Amplitude(a.initial_offset, Lf, LRigid(hs, a.flex_ratio))
        xl == IF SideOf(b) = "L" THEN x ELSE a.anchor_distance - x
    IN  SignY(b) * HalfSp(a)
          + (IF xl < Lf THEN FlexY(A, Lf, xl) ELSE LineY(A, RigidSlope(A, Lf), xl, Lf))

\* Slope of the rigid section of the half-beams of the assembly.
SpringSlope(a) ==
    LET hs == SpringHalfSpan(a)
        Lf == LFlex(hs, a.flex_ratio)
    IN  RigidSlope(Amplitude(a.initial_offset, Lf, LRigid(hs, a.flex_ratio)), Lf)

\* Where the gussets are: on the face of the shuttle at the end of each beam.
GussetsOnFaces(a, out) ==
    /\ DOMAIN out.gussets = (IF a.junction_widening > 0 THEN Gussets ELSE {})
    /\ \A g \in DOMAIN out.gussets :
         LET tri  == out.gussets[g]
             face == IF SideOf(g) = "L" THEN ShuttleRect(a)[1][1]
                     ELSE ShuttleRect(a)[2][1]
         IN  \* base on the shuttle face, 2 * junction_widening long
             /\ tri[1][1] = face /\ tri[2][1] = face
             /\ tri[2][2] - tri[1][2] = 2 * a.junction_widening
             \* centred on the end of the beam
             /\ Near((tri[1][2] + tri[2][2]) \div 2, BeamCenterlineY(a, BeamOf(g), face))
             \* apex 2 um away from the face, on the side of the beam
             /\ tri[3][1] = (IF SideOf(g) = "L" THEN face - 2 * SC ELSE face + 2 * SC)

(***************************************************************************)
(* C21 (as stated): gussets are added exactly when junction_widening > 0,  *)
(* before the union: one triangle per beam-to-shuttle face (four), its     *)
(* base on the shuttle face spanning 2 * junction_widening and centred on  *)
(* the beam, its apex 2 um away from the face on that beam's centerline.   *)
(***************************************************************************)
C21_GussetApexOnCenterline ==
    springOut.kind = "returned" =>
        /\ GussetsOnFaces(springArgs, springOut)
        /\ \A g \in DOMAIN springOut.gussets :
             Near(springOut.gussets[g][3][2],
                  BeamCenterlineY(springArgs, BeamOf(g), springOut.gussets[g][3][1]))

(***************************************************************************)
(* C21 (amended): gussets are added exactly when junction_widening > 0,    *)
(* before the union: one triangle per beam-to-shuttle face (four), its     *)
(* base on the shuttle face spanning 2 * junction_widening and centred on  *)
(* the beam end, its apex 2 um away from the face at the y of the beam     *)
(* end, initial_offset +/- beam_spacing / 2.  The apex is off the beam's   *)
(* centerline by 2 um times the slope of the rigid section; it lies on the *)
(* centerline only for initial_offset = 0.                                 *)
(***************************************************************************)
C21_GussetApexAtBeamEndY ==
    springOut.kind = "returned" =>
        /\ GussetsOnFaces(springArgs, springOut)
        /\ \A g \in DOMAIN springOut.gussets :
             LET apex == springOut.gussets[g][3]
                 cy   == BeamCenterlineY(springArgs, BeamOf(g), apex[1])
             IN  /\ apex[2] = springArgs.initial_offset + SignY(g) * HalfSp(springArgs)
                 /\ Near(apex[2] - cy, 2 * SpringSlope(springArgs))
                 /\ Near(apex[2], cy) <=> springArgs.initial_offset = 0
        /\ (springArgs.junction_widening > 0 /\ springOut.components = 1)
              => GussetPieces \subseteq springOut.pieces

\* A curved beam with gussets: four triangles, apexes off the centerline.
C21_Witness ==
    /\ springOut.kind = "returned"
    /\ springArgs.junction_widening > 0
    /\ springArgs.initial_offset > 0
    /\ DOMAIN springOut.gussets = Gussets
    /\ springOut.components = 1

\* The vertex arrays and measures of an outline.
OutlineOfCall(out) ==
    <<out.hb, out.polys, out.shuttle_rect, out.gussets, out.r, out.components,
      out.area_pre, out.area_post>>

PlacedAsSpecified(a, tpl, placed, rect, n) ==
    LET half_span == (a.anchor_distance - a.shuttle_length) \div 2
    IN  /\ 2 * half_span = a.anchor_distance - a.shuttle_length
        /\ \A k \in 1..2 :
             /\ placed[k][1][1] = 0
             /\ placed[k][n][1] = half_span
             /\ placed[k][n][1] = rect[1][1]
        /\ \A k \in 3..4 :
             /\ placed[k][1][1] = a.anchor_distance
             /\ placed[k][n][1] = half_span + a.shuttle_length
             /\ placed[k][n][1] = rect[2][1]
        /\ \A k \in 1..4 : \A i \in 1..Len(tpl) :
             placed[k][i][2] - tpl[i][2] =
                (IF k \in {1, 3} THEN a.beam_spacing \div 2 ELSE 0 - a.beam_spacing \div 2)

(***************************************************************************)
(* C23 (as stated): in the full-spring assembly half_span =                *)
(* (anchor_distance - shuttle_length) / 2; the two left half-beams are     *)
(* unmirrored with anchor end at x = 0 and shuttle end at x = half_span,   *)
(* the two right ones are mirrored and translated so that their anchor end *)
(* is at x = anchor_distance and their shuttle end at x = half_span +      *)
(* shuttle_length; the beams sit at y = +/- beam_spacing / 2; both         *)
(* shuttle-end x values coincide exactly with the left and right faces of  *)
(* the shuttle rectangle, in get_full_spring_polygon and in                *)
(* make_complete_spring alike.                                             *)
(***************************************************************************)
C23_BeamsMeetShuttleFaces ==
    /\ springOut.kind = "returned" =>
         PlacedAsSpecified(springArgs, springOut.hb, springOut.polys,
                           springOut.shuttle_rect, (Len(springOut.hb) - 1) \div 2)
    /\ csOut.kind = "returned" =>
         PlacedAsSpecified(springArgs, csOut.half_beam, csOut.refs,
                           csOut.shuttle, Len(csOut.half_beam) \div 2)

(***************************************************************************)
(* C12 (as stated): get_full_spring_polygon fails with a                   *)
(* NonManifoldPolygonError, and returns no outline, whenever the union has *)
(* zero area or the result after the fillet consists of several disjoint   *)
(* components whose combined area differs from the pre-fillet area by more *)
(* than a tolerance.                                                       *)
(***************************************************************************)
C12_NonManifoldRejected ==
    (/\ springOut.kind # "none"
     /\ \/ springOut.area_pre = 0
        \/ /\ springOut.components > 1
           /\ Abs(springOut.area_post - springOut.area_pre) > AreaTol)
        => springOut.kind = "NonManifoldPolygonError"

(***************************************************************************)
(* C13 (as stated): for flex_width > 0, rigid_width > 0 and                *)
(* fillet_radius > 0 the erosion radius actually applied is strictly less  *)
(* than half the minimum beam width, min(flex_width, rigid_width) / 2.     *)
(***************************************************************************)
C13_ErosionBelowHalfMinWidth ==
    (/\ springOut.kind # "none"
     /\ springArgs.flex_width > 0
     /\ springArgs.rigid_width > 0
     /\ springArgs.fillet_radius > 0)
        => 2 * springOut.r < Min(springArgs.flex_width, springArgs.rigid_width)

(***************************************************************************)
(* C14 (as stated): the keep-largest-piece fallback applies only to        *)
(* geometry split by the fillet erosion: for fillet_radius = 0 the         *)
(* returned outline is the union of all requested members, whatever        *)
(* beam_spacing and shuttle_height are.                                    *)
(***************************************************************************)
C14_NoMemberDiscarded ==
    (springOut.kind = "returned" /\ springArgs.fillet_radius = 0)
        => springOut.pieces = Requested(springArgs)

(***************************************************************************)
(* Per-vertex mesh size of the 3-D mesh entry points                       *)
(* (full_spring_utils.py 374-397, 461-482)                                 *)
(*                                                                         *)
(* Each outline vertex is added with gmsh.model.occ.addPoint(x, y, 0, lc); *)
(* lc depends on the x of the vertex only.                                 *)
(***************************************************************************)

\* half_span=None
None == 0 - 1

LcDefaults ==
    [f |-> 1, anchor_distance |-> Milli(80000), half_span |-> None,
     shuttle_length |-> Milli(7000), flex_ratio |-> Milli(300),
     taper_length |-> Milli(2000), lc_flex |-> Milli(300), lc_rigid |-> Milli(500)]

LcArgSets ==
    { [LcDefaults EXCEPT !.f = f, !.half_span = hs, !.flex_ratio = fr,
                         !.taper_length = tl] :
        f \in {1, 2}, hs \in {None, Milli(36500)},
        fr \in {Milli(300), Milli(100)}, tl \in {Milli(2000), Milli(4000)} }

\* The x of the vertices of an outline, in order: anchors, flex sections,
\* tapers, rigid sections, shuttle faces and shuttle.
OutlineXs ==
    { <<0, Milli(3000), Milli(11500), Milli(12500), Milli(20000), Milli(30000),
        Milli(36500), Milli(40000), Milli(43500), Milli(60000), Milli(68500),
        Milli(77000), Milli(80000)>>,
      <<Milli(80000), Milli(75000), Milli(66000), Milli(50000), Milli(24000),
        Milli(5000), Milli(1000)>> }

\* if half_span is None: half_span = (anchor_distance - shuttle_length) / 2.0
LcHalfSpan(a) ==
    IF a.half_span = None THEN (a.anchor_distance - a.shuttle_length) \div 2
    ELSE a.half_span

\* L_flex_beam = flex_ratio * half_span
LFlexBeam(a) == Mul(a.flex_ratio, LcHalfSpan(a))

\* in_flex = (x < L_flex_beam + 1) or (abs(x - shuttle_x0) < L_flex_beam + 1)
\*        or (abs(x - shuttle_x1) < L_flex_beam + 1)
\*        or (x > anchor_distance - L_flex_beam - 1)
InFlex(x, a) ==
    LET shuttle_x0 == LcHalfSpan(a)
        shuttle_x1 == a.anchor_distance - LcHalfSpan(a)
    IN  \/ x < LFlexBeam(a) + SC
        \/ Abs(x - shuttle_x0) < LFlexBeam(a) + SC
        \/ Abs(x - shuttle_x1) < LFlexBeam(a) + SC
        \/ x > a.anchor_distance - LFlexBeam(a) - SC

\* lc = lc_flex if in_flex else lc_rigid
Lc(x, a) == IF InFlex(x, a) THEN a.lc_flex ELSE a.lc_rigid

LcInit ==
    /\ lcArgs \in LcArgSets
    /\ lcPts \in OutlineXs
    /\ lcOut = <<>>

\* No mesh sizes are assigned.
LcIdle ==
    /\ lcArgs = LcDefaults
    /\ lcPts = <<>>
    /\ lcOut = <<>>

\* One pass of "for x, y in polygon": the next vertex is added with its lc.
AddPoint ==
    /\ lcPts # <<>>
    /\ lcOut' = Append(lcOut, [x |-> Head(lcPts), lc |-> Lc(Head(lcPts), lcArgs)])
    /\ lcPts' = Tail(lcPts)
    /\ UNCHANGED <<lcArgs, bcVars, meshVars, beamVars, f1Vars, springVars, widthVars,
                   xlimVars, evVars>>

LcNext == AddPoint

\* x lies in a flex or taper zone of a half-beam: within
\* L_flex + taper_length / 2 of either anchor plane.
InFlexOrTaperZone(x, a) ==
    \/ x < LFlexBeam(a) + a.taper_length \div 2
    \/ x > a.anchor_distance - LFlexBeam(a) - a.taper_length \div 2

(***************************************************************************)
(* C17 (as stated): an outline vertex is given lc_flex when its x lies in  *)
(* a flex or taper zone of a half-beam (within L_flex + taper_length / 2   *)
(* of either anchor plane) and lc_rigid at every other x, by both mesh     *)
(* entry points alike.                                                     *)
(***************************************************************************)
C17_LcByFlexZone ==
    \A i \in 1..Len(lcOut) :
        lcOut[i].lc = IF InFlexOrTaperZone(lcOut[i].x, lcArgs)
                      THEN lcArgs.lc_flex ELSE lcArgs.lc_rigid

(***************************************************************************)
(* find_physical_xlim  (full_spring_utils.py 264-308)                      *)
(*                                                                         *)
(* Arrays are indexed from 1 here: Python's disp[i] is disp[i + 1], and    *)
(* i_peak is reported as the 1-based position of the force minimum.        *)
(***************************************************************************)

\* Longest array enumerated sample by sample.
XlMaxLen == 5

\* trim = max(n // 10, 1)
Trim(n) == Max(n \div 10, 1)

RECURSIVE ArgMin(_, _, _)
\* lo - 1 + np.argmin(F[lo..hi]): the first position of the smallest value.
ArgMin(F, lo, hi) ==
    IF lo >= hi THEN lo
    ELSE LET rest == ArgMin(F, lo + 1, hi)
         IN  IF F[lo] <= F[rest] THEN lo ELSE rest

\* i_peak: the minimum over F[trim:n - trim] if that slice is not empty,
\* else over all of F.
IPeak(F) ==
    LET n == Len(F)
    IN  IF n > 2 * Trim(n) THEN ArgMin(F, Trim(n) + 1, n - Trim(n))
        ELSE ArgMin(F, 1, n)

\* F[i] * F[j] < 0
SignChange(a, b) == (a < 0 /\ b > 0) \/ (a > 0 /\ b < 0)

\* disp[i] + (disp[j] - disp[i]) * abs(F[i]) / (abs(F[i]) + abs(F[j]))
Crossing(disp, F, i, j) ==
    disp[i] + Mul(disp[j] - disp[i], Div(Abs(F[i]), Abs(F[i]) + Abs(F[j])))

\* The pairs (j - 1, j) visited by the loop to the left of the peak and the
\* pairs (j, j + 1) visited by the loop to its right that change sign.
LeftCrossings(F, ip) == {j \in 2..ip : SignChange(F[j], F[j - 1])}
RightCrossings(F, ip) == {j \in ip..(Len(F) - 1) : SignChange(F[j], F[j + 1])}

SetMax(S) == CHOOSE m \in S : \A k \in S : k <= m
SetMin(S) == CHOOSE m \in S : \A k \in S : m <= k

\* The left loop runs from the peak downwards and breaks at its first
\* crossing.
XLeft(disp, F, ip) ==
    IF LeftCrossings(F, ip) = {} THEN disp[1]
    ELSE LET j == SetMax(LeftCrossings(F, ip)) IN Crossing(disp, F, j - 1, j)

\* The right loop runs from the peak upwards without a break: every crossing
\* overwrites x_right, the last one stays.
XRightFirst(disp, F, ip) ==
    IF RightCrossings(F, ip) = {} THEN disp[Len(disp)]
    ELSE LET j == SetMin(RightCrossings(F, ip)) IN Crossing(disp, F, j, j + 1)
XRight(disp, F, ip) ==
    IF RightCrossings(F, ip) = {} THEN disp[Len(disp)]
    ELSE LET j == SetMax(RightCrossings(F, ip)) IN Crossing(disp, F, j, j + 1)

NoXlim ==
    [kind |-> "none", i_peak |-> 0, x_left |-> 0, x_right |-> 0,
     x_min |-> 0, x_max |-> 0]

find_physical_xlim(disp, F, margin_frac) ==
    LET ip      == IPeak(F)
        x_left  == XLeft(disp, F, ip)
        x_right == XRight(disp, F, ip)
        span    == Max(x_right - x_left, SC \div 10)
    IN  [kind |-> "returned", i_peak |-> ip, x_left |-> x_left, x_right |-> x_right,
         x_min |-> x_left - Mul(margin_frac, span),
         x_max |-> x_right + Mul(margin_frac, span)]

\* Force samples: both signs, two magnitudes, and an exact zero.
ForceValues == {0 - 2 * SC, 0 - SC, 0, SC}
RECURSIVE ArraysOfLen(_, _)
ArraysOfLen(S, n) ==
    IF n = 0 THEN {<<>>}
    ELSE {Append(s, e) : s \in ArraysOfLen(S, n - 1), e \in S}

\* Curves of 20 samples (trim = 2): the smallest force in the excluded edge,
\* a well in the middle, one or several sign changes on either side.
LongForces ==
    { [i \in 1..20 |-> IF i = 2 THEN 0 - 3 * SC
                       ELSE IF i \in 8..12 THEN 0 - SC ELSE SC],
      [i \in 1..20 |-> IF i = 19 THEN 0 - 3 * SC
                       ELSE IF i \in {5, 10, 15} THEN 0 - (i \div 5) * SC ELSE SC],
      [i \in 1..20 |-> IF i \in 6..9 THEN (0 - SC) - (i - 6) * SC
                       ELSE IF i \in {14, 17} THEN 0 - SC ELSE 2 * SC] }

ForceArrays ==
    UNION {ArraysOfLen(ForceValues, n) : n \in 1..XlMaxLen} \cup LongForces

\* Strictly increasing displacements: an even grid starting below zero and a
\* grid of growing steps.
DispArrays(n) ==
    { [i \in 1..n |-> (i - 1) * (SC \div 2) - SC],
      [i \in 1..n |-> i * i * (SC \div 10)] }

XlimInit ==
    /\ xlF \in ForceArrays
    /\ xlDisp \in DispArrays(Len(xlF))
    /\ xlMargin \in {Milli(50), Milli(200)}
    /\ xlOut = NoXlim

\* No plot range is requested.
XlimIdle ==
    /\ xlF = <<SC>>
    /\ xlDisp = <<0>>
    /\ xlMargin = Milli(50)
    /\ xlOut = NoXlim

\* One call find_physical_xlim(xlDisp, xlF, xlMargin).
FindPhysicalXlim ==
    /\ xlOut.kind = "none"
    /\ xlOut' = find_physical_xlim(xlDisp, xlF, xlMargin)
    /\ UNCHANGED <<xlDisp, xlF, xlMargin,
                   bcVars, meshVars, beamVars, f1Vars, springVars, lcVars, widthVars,
                   evVars>>

XlimNext == FindPhysicalXlim

\* x is the linear interpolation of the zero of F between samples i and j.
Interpolates(x, disp, F, i, j) ==
    /\ disp[i] < x /\ x < disp[j]
    /\ Abs((x - disp[i]) * ((Abs(F[i]) + Abs(F[j])) \div SC)
             - (disp[j] - disp[i]) * (Abs(F[i]) \div SC)) <= Eps

\* What find_physical_xlim returns apart from the choice of the crossing on
\* the right: the start at the interior minimum, the first crossing met on
\* the left, the fallbacks, the position of the peak inside the interval and
\* the margins.
XlimCommon(rightmost) ==
    LET n  == Len(xlF)
        ip == xlOut.i_peak
        inner == IF n > 2 * Trim(n) THEN (Trim(n) + 1)..(n - Trim(n)) ELSE 1..n
        lefts == {j \in 2..ip : SignChange(xlF[j - 1], xlF[j])}
        rights == {j \in ip..(n - 1) : SignChange(xlF[j], xlF[j + 1])}
        span == IF xlOut.x_right - xlOut.x_left > SC \div 10
                THEN xlOut.x_right - xlOut.x_left ELSE SC \div 10
    IN  /\ ip \in inner
        /\ \A k \in inner : xlF[ip] <= xlF[k]
        /\ IF lefts = {} THEN xlOut.x_left = xlDisp[1]
           ELSE \E j \in lefts :
                  /\ \A k \in lefts : k <= j
                  /\ Interpolates(xlOut.x_left, xlDisp, xlF, j - 1, j)
        /\ IF rights = {} THEN xlOut.x_right = xlDisp[n]
           ELSE \E j \in rights :
                  /\ \A k \in rights : IF rightmost THEN k <= j ELSE j <= k
                  /\ Interpolates(xlOut.x_right, xlDisp, xlF, j, j + 1)
        /\ xlOut.x_min < xlDisp[ip] /\ xlDisp[ip] < xlOut.x_max
        /\ Near(xlOut.x_left - xlOut.x_min, Mul(xlMargin, span))
        /\ Near(xlOut.x_max - xlOut.x_right, Mul(xlMargin, span))

(***************************************************************************)
(* C28 (as stated): for strictly increasing disp, find_physical_xlim       *)
(* starts at the interior force minimum (edge 10% excluded) and walks      *)
(* outward on each side to the first sign change of F it meets, linearly   *)
(* interpolating the crossing (falling back to disp[0] / disp[-1] when a   *)
(* side has none); the returned interval satisfies x_min < disp[i_peak] <  *)
(* x_max and is widened on each side by margin_frac * max(x_right -        *)
(* x_left, 0.1).                                                           *)
(***************************************************************************)
C28_FirstCrossingEachSide ==
    xlOut.kind = "returned" => XlimCommon(FALSE)

(***************************************************************************)
(* C28 (amended): for strictly increasing disp, find_physical_xlim starts  *)
(* at the interior force minimum (edge 10% excluded); on the left it walks *)
(* outward to the first sign change of F it meets, on the right it takes   *)
(* the last sign change between the minimum and the end of the data; it    *)
(* linearly interpolates the crossing (falling back to disp[0] / disp[-1]  *)
(* when a side has none); the returned interval satisfies x_min <          *)
(* disp[i_peak] < x_max and is widened on each side by margin_frac *       *)
(* max(x_right - x_left, 0.1).                                             *)
(***************************************************************************)
C28_FirstLeftLastRight ==
    xlOut.kind = "returned" => XlimCommon(TRUE)

\* A curve with two sign changes on each side of its minimum.
C28_Witness ==
    /\ xlOut.kind = "returned"
    /\ Cardinality({j \in 2..xlOut.i_peak : SignChange(xlF[j - 1], xlF[j])}) >= 2
    /\ Cardinality({j \in xlOut.i_peak..(Len(xlF) - 1) :
                        SignChange(xlF[j], xlF[j + 1])}) >= 2
    /\ Len(xlF) = 20

(***************************************************************************)
(* find_even_mode_eigenvalues  (bistable_beam_simulation.py 21-57)         *)
(***************************************************************************)

\* Largest n_modes enumerated.
MaxModes == 60

\* np.tan(x) for x >= 0, away from the poles.
NpTan(x) ==
    LET t == x % PI
    IN  IF 2 * t < PI THEN Div(Sin(t), Cos(t))
        ELSE 0 - Div(Sin(PI - t), Cos(PI - t))

\* lambda x: np.tan(x) - x
TanMinusX(x) == NpTan(x) - x

\* x_low, x_high of mode k
XLow(k) ==
    IF k = 0 THEN PI + SC \div 10
    ELSE k * PI + PI + SC \div 10
XHigh(k) ==
    IF k = 0 THEN (3 * PI) \div 2 - SC \div 10
    ELSE k * PI + (3 * PI) \div 2 - SC \div 10

RECURSIVE Bisect(_, _)
\* The zero of tan(x) - x between lo (negative there) and hi (positive there).
Bisect(lo, hi) ==
    IF hi - lo <= 1 THEN lo
    ELSE LET mid == (lo + hi) \div 2
         IN  IF TanMinusX(mid) > 0 THEN Bisect(lo, mid) ELSE Bisect(mid, hi)

\* brentq(f, a, b): ValueError unless f(a) and f(b) have different signs.
ValueError == 0 - 1
brentq(a, b) ==
    IF TanMinusX(a) = 0 THEN a
    ELSE IF TanMinusX(b) = 0 THEN b
    ELSE IF SignChange(TanMinusX(a), TanMinusX(b))
         THEN (IF TanMinusX(a) < 0 THEN Bisect(a, b) ELSE Bisect(b, a))
    ELSE ValueError

\* approx_roots = [4.4934, 7.7253, 10.9041]
ApproxRoots == <<4493400, 7725300, 10904100>>

\* One turn of the loop: what mode k appends to eigenvalues.
ModeAppends(k) ==
    LET x_root == brentq(XLow(k), XHigh(k))
    IN  IF x_root # ValueError THEN <<2 * x_root>>
        ELSE IF k < Len(ApproxRoots) THEN <<2 * ApproxRoots[k + 1]>>
        ELSE <<>>

RECURSIVE EigenvaluesFrom(_, _)
EigenvaluesFrom(k, n_modes) ==
    IF k >= n_modes THEN <<>>
    ELSE ModeAppends(k) \o EigenvaluesFrom(k + 1, n_modes)

find_even_mode_eigenvalues(n_modes) ==
    [kind |-> "returned", eigenvalues |-> EigenvaluesFrom(0, n_modes)]

NoEigenvalues == [kind |-> "none", eigenvalues |-> <<>>]

EvInit ==
    /\ evModes \in 0..MaxModes
    /\ evOut = NoEigenvalues

\* No eigenvalue is requested.
EvIdle ==
    /\ evModes = 3
    /\ evOut = NoEigenvalues

\* One call find_even_mode_eigenvalues(evModes).
FindEvenModeEigenvalues ==
    /\ evOut.kind = "none"
    /\ evOut' = find_even_mode_eigenvalues(evModes)
    /\ UNCHANGED <<evModes,
                   bcVars, meshVars, beamVars, f1Vars, springVars, lcVars, widthVars,
                   xlimVars>>

EvNext == FindEvenModeEigenvalues

\* N = 2 x for a root x of tan(x) = x, at the precision of approx_roots.
IsEvenModeEigenvalue(N) ==
    Abs(TanMinusX(N \div 2)) <= Milli(10)

(***************************************************************************)
(* C29 (as stated): find_even_mode_eigenvalues(n_modes) returns exactly    *)
(* n_modes eigenvalues for every n_modes >= 1, in strictly increasing      *)
(* order, each equal to N = 2 x for a root x of tan(x) = x (the first      *)
(* three about 8.987, 15.45, 21.81).                                       *)
(***************************************************************************)
C29_ExactlyNModes ==
    (evOut.kind = "returned" /\ evModes >= 1) =>
        LET ev == evOut.eigenvalues
        IN  /\ Len(ev) = evModes
            /\ \A i \in 1..(Len(ev) - 1) : ev[i] < ev[i + 1]
            /\ \A i \in 1..Len(ev) : IsEvenModeEigenvalue(ev[i])
            /\ Len(ev) >= 1 => Abs(ev[1] - 8987000) <= Milli(1)
            /\ Len(ev) >= 2 => Abs(ev[2] - 15450000) <= Milli(1)
            /\ Len(ev) >= 3 => Abs(ev[3] - 21810000) <= Milli(2)

(***************************************************************************)
(* Specifications                                                          *)
(***************************************************************************)
InitBC == BCInit /\ MeshIdle /\ BeamIdle /\ F1Idle /\ SpringIdle /\ LcIdle /\ WidthIdle /\ XlimIdle /\ EvIdle
SpecBC == InitBC /\ [][BCNext]_vars

InitMesh == MeshInit /\ BCIdle /\ BeamIdle /\ F1Idle /\ SpringIdle /\ LcIdle /\ WidthIdle /\ XlimIdle /\ EvIdle
SpecMesh == InitMesh /\ [][MeshNext]_vars

InitBeam == BeamInit /\ BCIdle /\ MeshIdle /\ F1Idle /\ SpringIdle /\ LcIdle /\ WidthIdle /\ XlimIdle /\ EvIdle
SpecBeam == InitBeam /\ [][BeamNext]_vars

InitF1 == F1Init /\ BCIdle /\ MeshIdle /\ BeamIdle /\ SpringIdle /\ LcIdle /\ WidthIdle /\ XlimIdle /\ EvIdle
SpecF1 == InitF1 /\ [][F1Next]_vars

InitLc == LcInit /\ BCIdle /\ MeshIdle /\ BeamIdle /\ F1Idle /\ SpringIdle /\ WidthIdle /\ XlimIdle /\ EvIdle
SpecLc == InitLc /\ [][LcNext]_vars

InitWidth == WidthInit /\ BCIdle /\ MeshIdle /\ BeamIdle /\ F1Idle /\ SpringIdle /\ LcIdle /\ XlimIdle /\ EvIdle
SpecWidth == InitWidth /\ [][WidthNext]_vars

InitSpring == SpringInit /\ BCIdle /\ MeshIdle /\ BeamIdle /\ F1Idle /\ LcIdle /\ WidthIdle /\ XlimIdle /\ EvIdle
SpecSpring == InitSpring /\ [][SpringNext]_vars

InitXlim == XlimInit /\ BCIdle /\ MeshIdle /\ BeamIdle /\ F1Idle /\ SpringIdle /\ LcIdle /\ WidthIdle /\ EvIdle
SpecXlim == InitXlim /\ [][XlimNext]_vars

InitEv == EvInit /\ BCIdle /\ MeshIdle /\ BeamIdle /\ F1Idle /\ SpringIdle /\ LcIdle /\ WidthIdle /\ XlimIdle
SpecEv == InitEv /\ [][EvNext]_vars

=============================================================================
